---- MODULE Spec2Model ----
(***************************************************************************)
(* The space sync gateway of packages/backend/server/src/core/sync/        *)
(* gateway.ts: SpaceSyncGateway, the session adapters SyncSocketAdapter /  *)
(* WorkspaceSyncAdapter / UserspaceSyncAdapter, and the collaborators they *)
(* call (socket rooms, permission service, runtime flag, doc storage).     *)
(*                                                                         *)
(* Every handler is an async method.  A handler is cut into steps at the   *)
(* awaits of runtime.fetch (the version flag), of assertAccessible in      *)
(* SyncSocketAdapter.join (the permission service for a workspace, a       *)
(* promise already settled for a userspace) and of the storage; the code   *)
(* between two such awaits runs in one step.  A call to the runtime        *)
(* config, the permission service or the storage returns or is rejected;   *)
(* no handler catches, so a rejected call ends its handler with the error  *)
(* of the call.                                                            *)
(* What a handler reads of the socket (its rooms, whether it is connected) *)
(* it reads in the step that runs the read.  The gateway holds no queue    *)
(* and no lock: a message is handed to its handler when it arrives,        *)
(* whether or not earlier handlers of the same connection are suspended at *)
(* an await, so a connection may have several handlers in flight, and the  *)
(* handlers in flight go on after their socket has disconnected.           *)
(*                                                                         *)
(* The socket transport and the wrapper that turns the end of a handler    *)
(* into the reply of its message are not part of gateway.ts: ClientJoin,   *)
(* Response and ReplyTo describe them as the specification does.           *)
(*                                                                         *)
(* Identifiers (space ids, doc ids, user ids, room names) are strings and  *)
(* room names are built by string concatenation, as in the source.         *)
(* Base64 text is a sequence of one-character strings, binary data a       *)
(* sequence of byte values.                                                *)
(***************************************************************************)
EXTENDS Integers, Sequences, FiniteSets, Bags, TLC

(***************************************************************************)
(* Bounds of the model.                                                    *)
(***************************************************************************)
\* inbound messages dispatched in one run, over all connections
MaxMsgs == 3
\* pushDocUpdates calls answered or pending in one run (bounds the storage clock)
MaxPushes == 2
\* handler invocations suspended at an await at one time, over all connections
MaxInFlight == 2

Conns == {"c1", "c2"}
\* @CurrentUser of each connection, resolved upstream
UserOf(c) == IF c = "c1" THEN "u1" ELSE "u2"
Users == {UserOf(c) : c \in Conns}

\* an optional value: absent, or present with value v
None == <<>>
Some(v) == <<v>>
\* null / undefined where an object is expected
Nil == [nil |-> TRUE]


\* AFFiNE.version
ServerVersion == "0.12.0"
Versions == {Some(ServerVersion), Some("0.11.0"), None}

\* base64 texts a client may send as update / awarenessUpdate
Updates == { <<"Y", "R", "=", "=">>, <<"Y", "W", "I", "=">> }
\* base64 texts a client may send as stateVector; the empty text stands for
\* an absent one as well (`stateVector ? ... : undefined`)
StateVectors == { <<>>, <<"A", "Q", "=", "=">> }

(***************************************************************************)
(* Buffer.from(text, 'base64') and Buffer.toString('base64').              *)
(***************************************************************************)
B64Alphabet ==
  << "A","B","C","D","E","F","G","H","I","J","K","L","M","N","O","P",
     "Q","R","S","T","U","V","W","X","Y","Z","a","b","c","d","e","f",
     "g","h","i","j","k","l","m","n","o","p","q","r","s","t","u","v",
     "w","x","y","z","0","1","2","3","4","5","6","7","8","9","+","/" >>

B64Index(ch) == (CHOOSE i \in 1..64 : B64Alphabet[i] = ch) - 1

\* the sextets of a base64 text: decoding stops at the first padding character
Sextets(text) ==
  LET stop == IF \E i \in 1..Len(text) : text[i] = "="
              THEN (CHOOSE i \in 1..Len(text) :
                      /\ text[i] = "="
                      /\ \A j \in 1..(i-1) : text[j] # "=") - 1
              ELSE Len(text)
  IN [i \in 1..stop |-> B64Index(text[i])]

SeqAt(s, i) == IF i <= Len(s) THEN s[i] ELSE 0

Base64Decode(text) ==
  LET s == Sextets(text)
      n == (Len(s) * 6) \div 8
      Byte(k) ==
        LET g == k \div 3
            j == k % 3
            a == SeqAt(s, 4*g + 1)
            b == SeqAt(s, 4*g + 2)
            c == SeqAt(s, 4*g + 3)
            d == SeqAt(s, 4*g + 4)
        IN CASE j = 0 -> a * 4 + (b \div 16)
             [] j = 1 -> (b % 16) * 16 + (c \div 4)
             [] OTHER -> (c % 4) * 64 + d
  IN [k \in 1..n |-> Byte(k - 1)]

Base64Encode(bytes) ==
  LET n == Len(bytes)
      m == 4 * ((n + 2) \div 3)
      Char(i) ==
        LET g == i \div 4
            j == i % 4
            x == SeqAt(bytes, 3*g + 1)
            y == SeqAt(bytes, 3*g + 2)
            z == SeqAt(bytes, 3*g + 3)
        IN CASE j = 0 -> B64Alphabet[(x \div 4) + 1]
             [] j = 1 -> B64Alphabet[(x % 4) * 16 + (y \div 16) + 1]
             [] j = 2 -> IF 3*g + 2 > n THEN "="
                         ELSE B64Alphabet[(y % 16) * 4 + (z \div 64) + 1]
             [] OTHER -> IF 3*g + 3 > n THEN "="
                         ELSE B64Alphabet[(z % 64) + 1]
  IN [i \in 1..m |-> Char(i - 1)]


(***************************************************************************)
(* State.                                                                  *)
(***************************************************************************)
VARIABLES
  status,           \* per connection: "idle" (not yet connected), "open", "closed"
  rooms,            \* per connection: client.rooms, the room names it has joined
  connectionCount,  \* SpaceSyncGateway.connectionCount
  gauge,            \* sum of the deltas recorded on the 'connections' gauge
  docs,             \* per space type, the doc storage: <<spaceId, docId>> -> doc
  clock,            \* the storage's timestamp source
  tasks,            \* the handler invocations in flight: a bag of their records
  sent,             \* inbound messages dispatched so far
  last,             \* what the latest step did (observation)
  emits             \* the events the latest step emitted, in order

vars == << status, rooms, connectionCount, gauge, docs, clock, tasks, sent,
           last, emits >>

Workspace == "workspace"
Userspace == "userspace"
SpaceTypes == {Workspace, Userspace}

(***************************************************************************)
(* Room names.                                                             *)
(***************************************************************************)
Room(spaceId, type) == spaceId \o ":" \o type

AwarenessRoomType(docId) == docId \o ":awareness"

\* a room name without the space type of the adapter
AdapterRoomUntyped(spaceType, spaceId, roomType) == Room(spaceId, roomType)

\* SyncSocketAdapter.room of the adapter of space type spaceType
AdapterRoom(spaceType, spaceId, roomType) == spaceType \o ":" \o Room(spaceId, roomType)

\* a join that never finds the socket in the room
InNever(c, spaceType, spaceId, roomType) == FALSE

\* SyncSocketAdapter.in
In(c, spaceType, spaceId, roomType) ==
  AdapterRoom(spaceType, spaceId, roomType) \in rooms[c]

\* an assertIn that only asks whether the socket has joined any room
AssertInThrowsInNoRoom(c, spaceType, spaceId, roomType) == rooms[c] = {}

\* the guard of SyncSocketAdapter.assertIn: TRUE when it throws NotInSpace
AssertInThrows(c, spaceType, spaceId, roomType) ==
  ~(AdapterRoom(spaceType, spaceId, roomType) \in rooms[c])

\* a broadcast that echoes to the sender: server.to(room) for client.to(room)
ToWithSender(c, roomName) ==
  {d \in Conns : status[d] = "open" /\ roomName \in rooms[d]}

\* client.to(room): every connected socket in the room except the sender
To(c, roomName) ==
  {d \in Conns \ {c} : status[d] = "open" /\ roomName \in rooms[d]}

\* client.emit: the socket itself, when it is still connected
Self(c) == IF status[c] = "open" THEN {c} ELSE {}

\* client.join(roomName) on the socket c: the rooms of all sockets after it.
\* What the transport does with a join is outside gateway.ts; as the spec has
\* it, a disconnect destroys the session and releases its memberships, so a
\* socket that has disconnected gains no room
ClientJoin(c, roomName) ==
  IF status[c] = "open" THEN [rooms EXCEPT ![c] = @ \cup {roomName}] ELSE rooms

Emit(ev, roomName, to, data) ==
  [ev |-> ev, room |-> roomName, to |-> to, data |-> data]

(***************************************************************************)
(* Collaborators.                                                          *)
(***************************************************************************)
\* UserspaceSyncAdapter.assertAccessible: TRUE when it throws SpaceAccessDenied
UserspaceDenied(spaceId, userId) == spaceId # userId

\* an assertAccessible that lost its negation
WorkspaceDeniedInverted(isWorkspaceMember) == isWorkspaceMember

\* WorkspaceSyncAdapter.assertAccessible: TRUE when it throws SpaceAccessDenied,
\* given the answer of permission.isWorkspaceMember(spaceId, userId, Collaborator)
WorkspaceDenied(isWorkspaceMember) == ~isWorkspaceMember

\* a version check that lets a message without a version pass
VersionMismatchIfDeclared(shouldCheckClientVersion, version) ==
  shouldCheckClientVersion /\ version # None /\ version # Some(ServerVersion)

\* the condition of assertVersion under which it rejects, given the answer of
\* runtime.fetch('flags/syncClientVersionCheck')
VersionMismatch(shouldCheckClientVersion, version) ==
  shouldCheckClientVersion /\ version # Some(ServerVersion)

\* new DocID(docId, spaceId).guid
DocIDGuid(docId, spaceId) == "guid(" \o spaceId \o "," \o docId \o ")"

\* the doc id an adapter hands to the storage for push and diff
StorageDocId(spaceType, spaceId, docId) ==
  IF spaceType = Workspace THEN DocIDGuid(docId, spaceId) ELSE docId

HasDoc(spaceType, spaceId, docId) == <<spaceId, docId>> \in DOMAIN docs[spaceType]

RECURSIVE Flatten(_)
Flatten(bins) == IF bins = <<>> THEN <<>> ELSE Head(bins) \o Flatten(Tail(bins))

\* DocStorageAdapter.pushDocUpdates: the storage after the call returning timestamp ts
PushDocUpdates(spaceType, spaceId, docId, updates, editorId, ts) ==
  LET key == <<spaceId, docId>>
      old == IF HasDoc(spaceType, spaceId, docId)
             THEN docs[spaceType][key].bin ELSE <<>>
      doc == [bin |-> old \o Flatten(updates), ts |-> ts, editor |-> editorId]
  IN [docs EXCEPT ![spaceType] =
        [k \in DOMAIN docs[spaceType] \cup {key} |->
           IF k = key THEN doc ELSE docs[spaceType][k]]]

\* DocStorageAdapter.deleteDoc
DeleteDoc(spaceType, spaceId, docId) ==
  [docs EXCEPT ![spaceType] =
     [k \in DOMAIN docs[spaceType] \ {<<spaceId, docId>>} |-> docs[spaceType][k]]]

\* the answers getDocDiff may give: Nil (null) for an absent doc
GetDocDiff(spaceType, spaceId, docId, stateVector) ==
  IF ~HasDoc(spaceType, spaceId, docId) THEN {Nil}
  ELSE LET doc == docs[spaceType][<<spaceId, docId>>]
       IN {[missing |-> mis, state |-> doc.bin, timestamp |-> doc.ts] :
             mis \in IF stateVector = None THEN {doc.bin} ELSE {doc.bin, <<>>}}

\* DocStorageAdapter.getSpaceDocTimestamps: docId -> timestamp, after `since`
GetSpaceDocTimestamps(spaceType, spaceId, since) ==
  LET after == IF since = None THEN 0 ELSE since[1]
      changed == {k[2] : k \in {k \in DOMAIN docs[spaceType] :
                                  k[1] = spaceId /\ docs[spaceType][k].ts > after}}
  IN [d \in changed |-> docs[spaceType][<<spaceId, d>>].ts]

(***************************************************************************)
(* Observation of a step, and what a step of a handler leaves.             *)
(***************************************************************************)
\* c: the connection, h: the handler running, step: the part of it this step
\* ran, done: the handler ended, err: the error it threw, reply: the data it
\* returned, acc: assertAccessible calls of the handler so far, rej: version
\* rejections it emitted so far, ret: what the awaited call returned
NoObs == [c |-> "-", h |-> "-", step |-> "-", done |-> FALSE,
          err |-> "none", reply |-> Nil, acc |-> 0, rej |-> 0, ret |-> None]

\* a handler invocation: its connection, the handler running (a legacy handler
\* that only reshapes its payload runs the current handler), the await it
\* waits at, its message, the room type of a join, the call it waits for, and
\* the counts of access checks and version rejections
NewTask(h, m) ==
  [c |-> "-", h |-> h, pc |-> "start", m |-> m, rt |-> "sync", call |-> Nil,
   acc |-> 0, rej |-> 0]

\* A step of a handler is a function of the state and of the invocation: it
\* leaves the invocation (suspended at an await, or Nil once it has ended),
\* the observation, the rooms, the events emitted, the storage and its clock.

\* the handler t of c suspends at the await named t.pc
Suspend(c, t, step, ret) ==
  [task |-> [t EXCEPT !.c = c],
   last |-> [NoObs EXCEPT !.c = c, !.h = t.h, !.step = step,
                          !.acc = t.acc, !.rej = t.rej, !.ret = ret],
   rooms |-> rooms, emits |-> <<>>, docs |-> docs, clock |-> clock]

\* the response `{}` of a handler: a response without data
NoData == [nodata |-> TRUE]

\* the handler method t of c ends: it returns the response { data } (data is
\* NoData for the response {}, Nil when the method returns nothing), or it
\* throws err and returns nothing
Finish(c, t, step, err, data, ret) ==
  [task |-> Nil,
   last |-> [NoObs EXCEPT !.c = c, !.h = t.h, !.step = step,
                          !.acc = t.acc, !.rej = t.rej, !.ret = ret,
                          !.done = TRUE, !.err = err, !.reply = data],
   rooms |-> rooms, emits |-> <<>>, docs |-> docs, clock |-> clock]

\* What becomes of the end of a handler is decided by GatewayErrorWrapper and
\* by the dispatch of the message, whose code is outside gateway.ts; as the
\* spec has it, an error thrown is converted to the error response of the
\* message, a response returned is the reply of the message, and a handler that
\* returns nothing has no reply.  obs is the observation of a step.
Response(obs) ==
  IF ~obs.done THEN Nil
  ELSE IF obs.err # "none" THEN [error |-> obs.err]
  ELSE IF obs.reply = Nil THEN Nil
  ELSE [data |-> obs.reply]

\* the sockets the reply of the step that led to this state reaches: it is sent
\* on the socket of the message, and reaches the caller while that is connected
ReplyTo == IF Response(last) = Nil THEN {} ELSE Self(last.c)

\* the invocations in flight
InFlight == BagToSet(tasks)

\* the invocation of out, if it goes on, joins those in flight
Spawned(out) == IF out.task = Nil THEN EmptyBag ELSE SetToBag({out.task})

Apply(out) ==
  /\ last' = out.last
  /\ rooms' = out.rooms
  /\ emits' = out.emits
  /\ docs' = out.docs
  /\ clock' = out.clock

\* c can be handed a message: its socket is connected
CanReceive(c) == status[c] = "open"

\* the gateway hands a message of c to its handler, which runs up to its first
\* await or to its end, whatever handlers are in flight
Receive(c, out) ==
  /\ CanReceive(c)
  /\ sent < MaxMsgs
  /\ sent' = sent + 1
  /\ out.task # Nil => BagCardinality(tasks) < MaxInFlight
  /\ tasks' = tasks (+) Spawned(out)
  /\ Apply(out)
  /\ UNCHANGED << status, connectionCount, gauge >>

\* the invocation t is in flight and waits at the await named pc
Awaits(t, pc) == BagIn(t, tasks) /\ t.pc = pc

\* the invocations that wait at the await named pc
Awaiting(pc) == {t \in InFlight : t.pc = pc}

\* the call the invocation t awaits returns, and its handler runs on, whether
\* or not its socket is still connected
Return(t, pc, out) ==
  /\ Awaits(t, pc)
  /\ tasks' = (tasks (-) SetToBag({t})) (+) Spawned(out)
  /\ Apply(out)
  /\ UNCHANGED << status, connectionCount, gauge, sent >>

(***************************************************************************)
(* Initial state and connection lifecycle.                                 *)
(***************************************************************************)
Init ==
  /\ status = [c \in Conns |-> "idle"]
  /\ rooms = [c \in Conns |-> {}]
  /\ connectionCount = 0
  /\ gauge = 0
  /\ docs = [t \in SpaceTypes |-> <<>>]
  /\ clock = 0
  /\ tasks = EmptyBag
  /\ sent = 0
  /\ last = NoObs
  /\ emits = <<>>

HandleConnection(c) ==
  /\ status[c] = "idle"
  /\ status' = [status EXCEPT ![c] = "open"]
  /\ connectionCount' = connectionCount + 1
  /\ gauge' = gauge + 1
  /\ last' = [NoObs EXCEPT !.c = c, !.h = "connect"]
  /\ emits' = <<>>
  /\ UNCHANGED << rooms, docs, clock, tasks, sent >>

\* a handleDisconnect that leaves the counter alone
HandleDisconnectUncounted(c) ==
  /\ status[c] = "open"
  /\ status' = [status EXCEPT ![c] = "closed"]
  /\ rooms' = [rooms EXCEPT ![c] = {}]
  /\ gauge' = gauge - 1
  /\ last' = [NoObs EXCEPT !.c = c, !.h = "disconnect"]
  /\ emits' = <<>>
  /\ UNCHANGED << connectionCount, docs, clock, tasks, sent >>

\* the transport drops the socket: its rooms are released, then handleDisconnect
HandleDisconnect(c) ==
  /\ status[c] = "open"
  /\ status' = [status EXCEPT ![c] = "closed"]
  /\ rooms' = [rooms EXCEPT ![c] = {}]
  /\ connectionCount' = connectionCount - 1
  /\ gauge' = gauge - 1
  /\ last' = [NoObs EXCEPT !.c = c, !.h = "disconnect"]
  /\ emits' = <<>>
  /\ UNCHANGED << docs, clock, tasks, sent >>

(***************************************************************************)
(* Version check and joins.                                                *)
(***************************************************************************)
JoinReply(c) == [clientId |-> c, success |-> TRUE]

\* SyncSocketAdapter.join, from its start to its await of assertAccessible or
\* to its early return (the task keeps what the code still reads: clientVersion
\* is not read again).  The workspace adapter awaits the permission service
\* inside assertAccessible; the userspace adapter compares the ids there, and
\* join still awaits the promise it is handed before it calls client.join.
\* ret is what the handler's await before the join returned.
AdapterJoin(c, t0, step, roomType, ret) ==
  LET t == [t0 EXCEPT !.rt = roomType, !.m.clientVersion = None]
      m == t.m
      checked == [t EXCEPT !.acc = @ + 1]
      call == [op |-> "isWorkspaceMember", spaceId |-> m.spaceId,
               userId |-> UserOf(c)]
  IN IF In(c, m.spaceType, m.spaceId, roomType)
     THEN Finish(c, t, step, "none", JoinReply(c), ret)
     ELSE IF m.spaceType = Workspace
     THEN Suspend(c, [checked EXCEPT !.pc = "permission", !.call = call], step, ret)
     ELSE Suspend(c, [checked EXCEPT !.pc = "accessible"], step, ret)

\* an assertVersion that does not read the flag
AssertVersionRejectsUnflagged(flag, version) == version # Some(ServerVersion)

\* assertVersion when runtime.fetch answers flag: TRUE when it rejects
\* (emits server-version-rejected to the client and throws VersionRejected)
AssertVersionRejects(flag, version) == VersionMismatch(flag, version)

\* a rejection announced to every connected socket
VersionRejectedEmitToAll(c, version) ==
  Emit("server-version-rejected", "-", {d \in Conns : status[d] = "open"},
       [currentVersion |-> version, requiredVersion |-> ServerVersion])

VersionRejectedEmit(c, version) ==
  Emit("server-version-rejected", "-", Self(c),
       [currentVersion |-> version, requiredVersion |-> ServerVersion])

\* a join handler that joins the room before it checks the version
JoinHandlerJoinsFirst(c, t, flag, roomType) ==
  IF AssertVersionRejects(flag, t.m.clientVersion)
  THEN [Finish(c, [t EXCEPT !.rej = @ + 1, !.acc = @ + 1], "version",
               "VersionRejected", Nil, Some(flag))
          EXCEPT !.emits = << VersionRejectedEmit(c, t.m.clientVersion) >>,
                 !.rooms = [rooms EXCEPT ![c] = @ \cup
                              {AdapterRoom(t.m.spaceType, t.m.spaceId, roomType)}]]
  ELSE AdapterJoin(c, t, "version", roomType, Some(flag))

\* onJoinSpace / onJoinAwareness once runtime.fetch has answered flag: the rest
\* of assertVersion, then adapter.join up to the await of the permission
\* service or to the end
JoinHandler(c, t, flag, roomType) ==
  IF AssertVersionRejects(flag, t.m.clientVersion)
  THEN [Finish(c, [t EXCEPT !.rej = @ + 1], "version", "VersionRejected", Nil,
               Some(flag))
          EXCEPT !.emits = << VersionRejectedEmit(c, t.m.clientVersion) >>]
  ELSE AdapterJoin(c, t, "version", roomType, Some(flag))

\* assertVersion up to its await of runtime.fetch('flags/syncClientVersionCheck')
AssertVersion(c, t, step, ret) ==
  Suspend(c, [t EXCEPT !.pc = "version"], step, ret)

\* onJoinSpace up to the await of runtime.fetch
onJoinSpace(c, m) == AssertVersion(c, NewTask("space:join", m), "recv", None)

SpaceJoin(c, m) ==
  /\ CanReceive(c)
  /\ Receive(c, onJoinSpace(c, m))

\* onJoinAwareness up to the await of runtime.fetch
onJoinAwareness(c, m) ==
  AssertVersion(c, [NewTask("space:join-awareness", m)
                      EXCEPT !.rt = AwarenessRoomType(m.docId)], "recv", None)

SpaceJoinAwareness(c, m) ==
  /\ CanReceive(c)
  /\ Receive(c, onJoinAwareness(c, m))

JoinHandlers == {"space:join", "space:join-awareness"}

\* runtime.fetch answers flag to the join handler t
AfterVersion(t, flag) == JoinHandler(t.c, t, flag, t.rt)

VersionReturn(t, flag) ==
  /\ Awaits(t, "version") /\ t.h \in JoinHandlers
  /\ Return(t, "version", AfterVersion(t, flag))

\* handleClientHandshakeSync up to the await of runtime.fetch of its own
\* assertVersion
handleClientHandshakeSync(c, workspaceId, version) ==
  AssertVersion(c, NewTask("client-handshake-sync",
                           [spaceType |-> Workspace, spaceId |-> workspaceId,
                            clientVersion |-> version]), "recv", None)

ClientHandshakeSync(c, workspaceId, version) ==
  /\ CanReceive(c)
  /\ Receive(c, handleClientHandshakeSync(c, workspaceId, version))

\* runtime.fetch answers flag to handleClientHandshakeSync: the rest of its
\* assertVersion, then onJoinSpace, which awaits assertVersion again
AfterHandshakeVersion(t, flag) ==
  IF AssertVersionRejects(flag, t.m.clientVersion)
  THEN [Finish(t.c, [t EXCEPT !.rej = @ + 1], "version", "VersionRejected", Nil,
               Some(flag))
          EXCEPT !.emits = << VersionRejectedEmit(t.c, t.m.clientVersion) >>]
  ELSE AssertVersion(t.c, [t EXCEPT !.h = "space:join"], "version", Some(flag))

HandshakeVersionReturn(t, flag) ==
  /\ Awaits(t, "version") /\ t.h = "client-handshake-sync"
  /\ Return(t, "version", AfterHandshakeVersion(t, flag))

handleClientHandshakeAwareness(c, workspaceId, version) ==
  onJoinAwareness(c, [spaceType |-> Workspace, spaceId |-> workspaceId,
                      docId |-> workspaceId, clientVersion |-> version])

ClientHandshakeAwareness(c, workspaceId, version) ==
  /\ CanReceive(c)
  /\ Receive(c, handleClientHandshakeAwareness(c, workspaceId, version))

\* a join that also puts the socket in the sync room of the space
AfterPermissionJoiningSyncToo(t, isWorkspaceMember) ==
  IF WorkspaceDenied(isWorkspaceMember)
  THEN Finish(t.c, t, "permission", "SpaceAccessDenied", Nil,
              Some(isWorkspaceMember))
  ELSE [Finish(t.c, t, "permission", "none", JoinReply(t.c),
               Some(isWorkspaceMember))
          EXCEPT !.rooms = [ClientJoin(t.c, AdapterRoom(t.m.spaceType, t.m.spaceId,
                                                       t.rt))
                              EXCEPT ![t.c] = @ \cup
                                {AdapterRoom(t.m.spaceType, t.m.spaceId, "sync")}]]

\* permission.isWorkspaceMember answers isWorkspaceMember to the join t: the
\* rest of assertAccessible and of join, which calls client.join and returns
AfterPermission(t, isWorkspaceMember) ==
  IF WorkspaceDenied(isWorkspaceMember)
  THEN Finish(t.c, t, "permission", "SpaceAccessDenied", Nil,
              Some(isWorkspaceMember))
  ELSE [Finish(t.c, t, "permission", "none", JoinReply(t.c),
               Some(isWorkspaceMember))
          EXCEPT !.rooms = ClientJoin(t.c, AdapterRoom(t.m.spaceType, t.m.spaceId,
                                                      t.rt))]

PermissionReturn(t, isWorkspaceMember) ==
  /\ Awaits(t, "permission")
  /\ Return(t, "permission", AfterPermission(t, isWorkspaceMember))

\* the userspace join t resumes after its await of assertAccessible: the promise
\* is rejected with SpaceAccessDenied when the space is not the user's own,
\* else join calls client.join and returns
AfterAccessible(t) ==
  IF UserspaceDenied(t.m.spaceId, UserOf(t.c))
  THEN Finish(t.c, t, "accessible", "SpaceAccessDenied", Nil, None)
  ELSE [Finish(t.c, t, "accessible", "none", JoinReply(t.c), None)
          EXCEPT !.rooms = ClientJoin(t.c, AdapterRoom(t.m.spaceType, t.m.spaceId,
                                                      t.rt))]

AccessibleReturn(t) ==
  /\ Awaits(t, "accessible")
  /\ Return(t, "accessible", AfterAccessible(t))

(***************************************************************************)
(* Leaves.                                                                 *)
(***************************************************************************)
\* a leave that asserts membership as the data operations do
AdapterLeaveAsserting(c, t, roomType) ==
  LET m == t.m
      roomName == AdapterRoom(m.spaceType, m.spaceId, roomType)
  IN IF roomName \in rooms[c]
     THEN [Finish(c, [t EXCEPT !.rt = roomType], "recv", "none", JoinReply(c), None)
             EXCEPT !.rooms = [rooms EXCEPT ![c] = @ \ {roomName}]]
     ELSE Finish(c, [t EXCEPT !.rt = roomType], "recv", "NotInSpace", Nil, None)

\* a leave that answers without taking the socket out of the room
AdapterLeaveKeepingRoom(c, t, roomType) ==
  Finish(c, [t EXCEPT !.rt = roomType], "recv", "none", JoinReply(c), None)

\* SyncSocketAdapter.leave and the reply of the leave handlers
AdapterLeave(c, t, roomType) ==
  LET m == t.m
      roomName == AdapterRoom(m.spaceType, m.spaceId, roomType)
  IN [Finish(c, [t EXCEPT !.rt = roomType], "recv", "none", JoinReply(c), None)
        EXCEPT !.rooms = IF In(c, m.spaceType, m.spaceId, roomType)
                         THEN [rooms EXCEPT ![c] = @ \ {roomName}]
                         ELSE rooms]

\* a leave-space that takes the socket out of all its rooms
onLeaveSpaceLeavingAll(c, m) ==
  [Finish(c, NewTask("space:leave", m), "recv", "none", JoinReply(c), None)
     EXCEPT !.rooms = [rooms EXCEPT ![c] = {}]]

onLeaveSpace(c, m) == AdapterLeave(c, NewTask("space:leave", m), "sync")

SpaceLeave(c, m) ==
  /\ CanReceive(c)
  /\ Receive(c, onLeaveSpace(c, m))

onLeaveAwareness(c, m) ==
  AdapterLeave(c, NewTask("space:leave-awareness", m), AwarenessRoomType(m.docId))

SpaceLeaveAwareness(c, m) ==
  /\ CanReceive(c)
  /\ Receive(c, onLeaveAwareness(c, m))

handleLeaveSync(c, workspaceId) ==
  onLeaveSpace(c, [spaceType |-> Workspace, spaceId |-> workspaceId])

ClientLeaveSync(c, workspaceId) ==
  /\ CanReceive(c)
  /\ Receive(c, handleLeaveSync(c, workspaceId))

\* a client-leave-awareness that leaves the sync room of the workspace
handleLeaveAwarenessOfSync(c, workspaceId) ==
  onLeaveSpace(c, [spaceType |-> Workspace, spaceId |-> workspaceId])

handleLeaveAwareness(c, workspaceId) ==
  onLeaveAwareness(c, [spaceType |-> Workspace, spaceId |-> workspaceId,
                       docId |-> workspaceId])

ClientLeaveAwareness(c, workspaceId) ==
  /\ CanReceive(c)
  /\ Receive(c, handleLeaveAwareness(c, workspaceId))

(***************************************************************************)
(* Documents: load, delete, push, timestamps.                              *)
(***************************************************************************)
\* a diff that asserts membership in both adapters
DiffAssertsInAlways(spaceType) == TRUE

\* whether the diff of the adapter of this space type calls assertIn itself:
\* WorkspaceSyncAdapter overrides diff without calling super.diff
DiffAssertsIn(spaceType) == spaceType # Workspace

\* SyncSocketAdapter.diff / WorkspaceSyncAdapter.diff up to the read it awaits
AdapterDiff(c, t, call) ==
  IF DiffAssertsIn(t.m.spaceType)
     /\ AssertInThrows(c, t.m.spaceType, t.m.spaceId, "sync")
  THEN Finish(c, t, "recv", "NotInSpace", Nil, None)
  ELSE Suspend(c, [t EXCEPT !.pc = "diff", !.call = call], "recv", None)

\* a null test that also takes an empty diff for a missing doc
DocIsNullOrEmpty(doc) == doc = Nil \/ doc.missing = <<>>

\* `!doc` in onLoadSpaceDoc
DocIsNull(doc) == doc = Nil

\* stateVector ? Buffer.from(stateVector, 'base64') : undefined
MaybeDecode(text) == IF text = <<>> THEN None ELSE Some(Base64Decode(text))

\* onLoadSpaceDoc up to the await of adapter.diff
onLoadSpaceDoc(c, m) ==
  LET t == NewTask("space:load-doc", m)
      call == [op |-> "getDocDiff", spaceType |-> m.spaceType,
               spaceId |-> m.spaceId,
               docId |-> StorageDocId(m.spaceType, m.spaceId, m.docId),
               stateVector |-> MaybeDecode(m.stateVector)]
  IN IF AssertInThrows(c, m.spaceType, m.spaceId, "sync")
     THEN Finish(c, t, "recv", "NotInSpace", Nil, None)
     ELSE AdapterDiff(c, t, call)

SpaceLoadDoc(c, m) ==
  /\ CanReceive(c)
  /\ Receive(c, onLoadSpaceDoc(c, m))

loadDocV2(c, workspaceId, guid, stateVector) ==
  onLoadSpaceDoc(c, [spaceType |-> Workspace, spaceId |-> workspaceId,
                     docId |-> guid, stateVector |-> stateVector])

DocLoadV2(c, workspaceId, guid, stateVector) ==
  /\ CanReceive(c)
  /\ Receive(c, loadDocV2(c, workspaceId, guid, stateVector))

\* getDocDiff answers doc: the rest of onLoadSpaceDoc
AfterDiff(t, doc) ==
  IF DocIsNull(doc)
  THEN Finish(t.c, t, "diff", "DocNotFound", Nil, Some(doc))
  ELSE Finish(t.c, t, "diff", "none",
              [missing |-> Base64Encode(doc.missing),
               state |-> Base64Encode(doc.state),
               timestamp |-> doc.timestamp], Some(doc))

\* the answers getDocDiff may give to the call the invocation t awaits
DiffAnswers(t) ==
  GetDocDiff(t.call.spaceType, t.call.spaceId, t.call.docId, t.call.stateVector)

DiffReturn(t) ==
  /\ Awaits(t, "diff")
  /\ \E doc \in DiffAnswers(t) : Return(t, "diff", AfterDiff(t, doc))

\* a delete-doc that asks the permission service before it deletes
onDeleteSpaceDocCheckingAccess(c, m) ==
  LET t == NewTask("space:delete-doc", m)
      call == [op |-> "isWorkspaceMember", spaceId |-> m.spaceId,
               userId |-> UserOf(c)]
  IN IF AssertInThrows(c, m.spaceType, m.spaceId, "sync")
     THEN Finish(c, t, "recv", "NotInSpace", Nil, None)
     ELSE Suspend(c, [t EXCEPT !.pc = "permission", !.call = call, !.acc = 1],
                  "recv", None)

\* onDeleteSpaceDoc up to the await of adapter.delete
onDeleteSpaceDoc(c, m) ==
  LET t == NewTask("space:delete-doc", m)
      call == [op |-> "deleteDoc", spaceType |-> m.spaceType,
               spaceId |-> m.spaceId, docId |-> m.docId]
  IN IF AssertInThrows(c, m.spaceType, m.spaceId, "sync")
     THEN Finish(c, t, "recv", "NotInSpace", Nil, None)
     ELSE Suspend(c, [t EXCEPT !.pc = "delete", !.call = call], "recv", None)

SpaceDeleteDoc(c, m) ==
  /\ CanReceive(c)
  /\ Receive(c, onDeleteSpaceDoc(c, m))

\* a delete-doc that takes the socket out of the sync room of the space
AfterDeleteLeaving(t) ==
  LET call == t.call
      c == t.c
  IN [Finish(c, t, "delete", "none", Nil, None)
        EXCEPT !.docs = DeleteDoc(call.spaceType, call.spaceId, call.docId),
               !.rooms = [rooms EXCEPT ![c] =
                            @ \ {AdapterRoom(call.spaceType, call.spaceId, "sync")}]]

\* a delete-doc that returns a response
AfterDeleteAcknowledging(t) ==
  LET call == t.call
  IN [Finish(t.c, t, "delete", "none", JoinReply(t.c), None)
        EXCEPT !.docs = DeleteDoc(call.spaceType, call.spaceId, call.docId)]

\* deleteDoc answers: onDeleteSpaceDoc returns nothing
AfterDelete(t) ==
  LET call == t.call
  IN [Finish(t.c, t, "delete", "none", Nil, None)
        EXCEPT !.docs = DeleteDoc(call.spaceType, call.spaceId, call.docId)]

DeleteReturn(t) ==
  /\ Awaits(t, "delete")
  /\ Return(t, "delete", AfterDelete(t))

\* a push that skips the storage call when the doc already ends with the updates
AdapterPushDeduplicating(c, t, updates) ==
  LET m == t.m
      docId == StorageDocId(m.spaceType, m.spaceId, m.docId)
      decoded == [i \in 1..Len(updates) |-> Base64Decode(updates[i])]
      call == [op |-> "pushDocUpdates", spaceType |-> m.spaceType,
               spaceId |-> m.spaceId, docId |-> docId, updates |-> decoded,
               editorId |-> UserOf(c)]
      bin == IF HasDoc(m.spaceType, m.spaceId, docId)
             THEN docs[m.spaceType][<<m.spaceId, docId>>].bin ELSE <<>>
      new == Flatten(decoded)
      held == /\ Len(bin) >= Len(new)
              /\ SubSeq(bin, Len(bin) - Len(new) + 1, Len(bin)) = new
  IN IF AssertInThrows(c, m.spaceType, m.spaceId, "sync")
     THEN Finish(c, t, "recv", "NotInSpace", Nil, None)
     ELSE IF held
     THEN Finish(c, t, "recv", "none", [accepted |-> TRUE, timestamp |-> clock], None)
     ELSE Suspend(c, [t EXCEPT !.pc = "push", !.call = call], "recv", None)

\* SyncSocketAdapter.push / WorkspaceSyncAdapter.push up to the storage call
AdapterPush(c, t, updates) ==
  LET m == t.m
      call == [op |-> "pushDocUpdates", spaceType |-> m.spaceType,
               spaceId |-> m.spaceId,
               docId |-> StorageDocId(m.spaceType, m.spaceId, m.docId),
               updates |-> [i \in 1..Len(updates) |-> Base64Decode(updates[i])],
               editorId |-> UserOf(c)]
  IN IF AssertInThrows(c, m.spaceType, m.spaceId, "sync")
     THEN Finish(c, t, "recv", "NotInSpace", Nil, None)
     ELSE Suspend(c, [t EXCEPT !.pc = "push", !.call = call], "recv", None)

\* pushDocUpdates calls answered so far or pending
PushesIssued ==
  clock + BagCardinality([t \in Awaiting("push") |-> tasks[t]])

\* a step that issues a pushDocUpdates call is taken while the storage has
\* timestamps left
Pushing(c, out) ==
  /\ out.task # Nil => PushesIssued < MaxPushes
  /\ Receive(c, out)

onReceiveDocUpdates(c, m) ==
  AdapterPush(c, NewTask("space:push-doc-updates", m), m.updates)

SpacePushDocUpdates(c, m) ==
  /\ CanReceive(c)
  /\ Pushing(c, onReceiveDocUpdates(c, m))

onReceiveDocUpdate(c, m) ==
  AdapterPush(c, NewTask("space:push-doc-update", m), << m.update >>)

SpacePushDocUpdate(c, m) ==
  /\ CanReceive(c)
  /\ Pushing(c, onReceiveDocUpdate(c, m))

\* a client-update-v2 that takes the workspace id for the doc id, as the legacy
\* awareness handlers do
handleClientUpdateV2OfWorkspaceDoc(c, workspaceId, guid, updates) ==
  onReceiveDocUpdates(c, [spaceType |-> Workspace, spaceId |-> workspaceId,
                          docId |-> workspaceId, updates |-> updates])

handleClientUpdateV2(c, workspaceId, guid, updates) ==
  onReceiveDocUpdates(c, [spaceType |-> Workspace, spaceId |-> workspaceId,
                          docId |-> guid, updates |-> updates])

ClientUpdateV2(c, workspaceId, guid, updates) ==
  /\ CanReceive(c)
  /\ Pushing(c, handleClientUpdateV2(c, workspaceId, guid, updates))

\* a push-doc-updates that sends the legacy event for every space type
DocUpdatesEmitsLegacyAlways(c, m, timestamp) ==
  LET roomName == AdapterRoom(m.spaceType, m.spaceId, "sync")
  IN << Emit("space:broadcast-doc-updates", roomName, To(c, roomName),
             [spaceType |-> m.spaceType, spaceId |-> m.spaceId, docId |-> m.docId,
              updates |-> m.updates, timestamp |-> timestamp]),
        Emit("server-updates", roomName, To(c, roomName),
             [workspaceId |-> m.spaceId,
              guid |-> DocIDGuid(m.docId, m.spaceId),
              updates |-> m.updates, timestamp |-> timestamp]) >>

\* the events onReceiveDocUpdates emits after the push
DocUpdatesEmits(c, m, timestamp) ==
  LET roomName == AdapterRoom(m.spaceType, m.spaceId, "sync")
  IN << Emit("space:broadcast-doc-updates", roomName, To(c, roomName),
             [spaceType |-> m.spaceType, spaceId |-> m.spaceId, docId |-> m.docId,
              updates |-> m.updates, timestamp |-> timestamp]) >>
     \o IF m.spaceType = Workspace
        THEN << Emit("server-updates", roomName, To(c, roomName),
                     [workspaceId |-> m.spaceId,
                      guid |-> DocIDGuid(m.docId, m.spaceId),
                      updates |-> m.updates, timestamp |-> timestamp]) >>
        ELSE <<>>

\* a broadcast stamped after the push instead of with the timestamp it returned
DocUpdateEmitsRestamped(c, m, timestamp) ==
  LET roomName == AdapterRoom(m.spaceType, m.spaceId, "sync")
  IN << Emit("space:broadcast-doc-updates", roomName, To(c, roomName),
             [spaceType |-> m.spaceType, spaceId |-> m.spaceId, docId |-> m.docId,
              updates |-> << m.update >>, timestamp |-> timestamp]),
        Emit("space:broadcast-doc-update", roomName, To(c, roomName),
             [spaceType |-> m.spaceType, spaceId |-> m.spaceId, docId |-> m.docId,
              update |-> m.update, timestamp |-> timestamp + 1,
              editor |-> UserOf(c)]) >>

\* the events onReceiveDocUpdate emits after the push
DocUpdateEmits(c, m, timestamp) ==
  LET roomName == AdapterRoom(m.spaceType, m.spaceId, "sync")
  IN << Emit("space:broadcast-doc-updates", roomName, To(c, roomName),
             [spaceType |-> m.spaceType, spaceId |-> m.spaceId, docId |-> m.docId,
              updates |-> << m.update >>, timestamp |-> timestamp]),
        Emit("space:broadcast-doc-update", roomName, To(c, roomName),
             [spaceType |-> m.spaceType, spaceId |-> m.spaceId, docId |-> m.docId,
              update |-> m.update, timestamp |-> timestamp,
              editor |-> UserOf(c)]) >>

\* the timestamp pushDocUpdates returns
NextTimestamp == clock + 1

\* a push that asserts the membership of the pusher again before it broadcasts
AfterPushReasserting(t) ==
  LET c == t.c
      call == t.call
      timestamp == NextTimestamp
  IN IF AssertInThrows(c, t.m.spaceType, t.m.spaceId, "sync")
     THEN [Finish(c, t, "push", "NotInSpace", Nil, Some(timestamp))
             EXCEPT !.clock = timestamp,
                    !.docs = PushDocUpdates(call.spaceType, call.spaceId,
                                            call.docId, call.updates,
                                            call.editorId, timestamp)]
     ELSE [Finish(c, t, "push", "none",
                  [accepted |-> TRUE, timestamp |-> timestamp], Some(timestamp))
             EXCEPT !.clock = timestamp,
                    !.docs = PushDocUpdates(call.spaceType, call.spaceId,
                                            call.docId, call.updates,
                                            call.editorId, timestamp),
                    !.emits = IF t.h = "space:push-doc-updates"
                              THEN DocUpdatesEmits(c, t.m, timestamp)
                              ELSE DocUpdateEmits(c, t.m, timestamp)]

\* a push that is given up when its socket has disconnected during the call
AfterPushUnlessClosed(t) ==
  LET c == t.c
      call == t.call
      timestamp == NextTimestamp
  IN IF status[c] # "open"
     THEN Finish(c, t, "push", "NotInSpace", Nil, Some(timestamp))
     ELSE [Finish(c, t, "push", "none",
                  [accepted |-> TRUE, timestamp |-> timestamp], Some(timestamp))
             EXCEPT !.clock = timestamp,
                    !.docs = PushDocUpdates(call.spaceType, call.spaceId,
                                            call.docId, call.updates,
                                            call.editorId, timestamp),
                    !.emits = IF t.h = "space:push-doc-updates"
                              THEN DocUpdatesEmits(c, t.m, timestamp)
                              ELSE DocUpdateEmits(c, t.m, timestamp)]

\* pushDocUpdates answers: the broadcasts and the reply of the push handlers
AfterPush(t) ==
  LET c == t.c
      call == t.call
      timestamp == NextTimestamp
  IN [Finish(c, t, "push", "none",
             [accepted |-> TRUE, timestamp |-> timestamp], Some(timestamp))
        EXCEPT !.clock = timestamp,
               !.docs = PushDocUpdates(call.spaceType, call.spaceId, call.docId,
                                       call.updates, call.editorId, timestamp),
               !.emits = IF t.h = "space:push-doc-updates"
                         THEN DocUpdatesEmits(c, t.m, timestamp)
                         ELSE DocUpdateEmits(c, t.m, timestamp)]

PushReturn(t) ==
  /\ Awaits(t, "push")
  /\ Return(t, "push", AfterPush(t))

\* onLoadDocTimestamps up to the await of adapter.getTimestamps
onLoadDocTimestamps(c, m) ==
  LET t == NewTask("space:load-doc-timestamps", m)
      call == [op |-> "getSpaceDocTimestamps", spaceType |-> m.spaceType,
               spaceId |-> m.spaceId, timestamp |-> m.timestamp]
  IN IF AssertInThrows(c, m.spaceType, m.spaceId, "sync")
     THEN Finish(c, t, "recv", "NotInSpace", Nil, None)
     ELSE Suspend(c, [t EXCEPT !.pc = "timestamps", !.call = call], "recv", None)

SpaceLoadDocTimestamps(c, m) ==
  /\ CanReceive(c)
  /\ Receive(c, onLoadDocTimestamps(c, m))

loadDocStats(c, workspaceId, timestamp) ==
  onLoadDocTimestamps(c, [spaceType |-> Workspace, spaceId |-> workspaceId,
                          timestamp |-> timestamp])

ClientPreSync(c, workspaceId, timestamp) ==
  /\ CanReceive(c)
  /\ Receive(c, loadDocStats(c, workspaceId, timestamp))

\* getSpaceDocTimestamps answers
AfterTimestamps(t) ==
  LET call == t.call
      stats == GetSpaceDocTimestamps(call.spaceType, call.spaceId, call.timestamp)
  IN Finish(t.c, t, "timestamps", "none", stats, Some(stats))

TimestampsReturn(t) ==
  /\ Awaits(t, "timestamps")
  /\ Return(t, "timestamps", AfterTimestamps(t))

(***************************************************************************)
(* Awareness.                                                              *)
(***************************************************************************)
\* a load-awarenesses without its assertIn
onLoadAwarenessUnguarded(c, m) ==
  LET roomType == AwarenessRoomType(m.docId)
      roomName == AdapterRoom(m.spaceType, m.spaceId, roomType)
      t == [NewTask("space:load-awarenesses", m) EXCEPT !.rt = roomType]
  IN [Finish(c, t, "recv", "none", [clientId |-> c], None)
        EXCEPT !.emits =
          << Emit("space:collect-awareness", roomName, To(c, roomName),
                  [spaceType |-> m.spaceType, spaceId |-> m.spaceId,
                   docId |-> m.docId]) >>]

onLoadAwareness(c, m) ==
  LET roomType == AwarenessRoomType(m.docId)
      roomName == AdapterRoom(m.spaceType, m.spaceId, roomType)
      t == [NewTask("space:load-awarenesses", m) EXCEPT !.rt = roomType]
  IN IF AssertInThrows(c, m.spaceType, m.spaceId, roomType)
     THEN Finish(c, t, "recv", "NotInSpace", Nil, None)
     ELSE [Finish(c, t, "recv", "none", [clientId |-> c], None)
             EXCEPT !.emits =
               << Emit("space:collect-awareness", roomName, To(c, roomName),
                       [spaceType |-> m.spaceType, spaceId |-> m.spaceId,
                        docId |-> m.docId]) >>
               \o IF m.spaceType = Workspace
                  THEN << Emit("new-client-awareness-init", roomName,
                               To(c, roomName), Nil) >>
                  ELSE <<>>]

SpaceLoadAwarenesses(c, m) ==
  /\ CanReceive(c)
  /\ Receive(c, onLoadAwareness(c, m))

handleInitAwareness(c, workspaceId) ==
  onLoadAwareness(c, [spaceType |-> Workspace, spaceId |-> workspaceId,
                      docId |-> workspaceId])

AwarenessInit(c, workspaceId) ==
  /\ CanReceive(c)
  /\ Receive(c, handleInitAwareness(c, workspaceId))

\* an update-awareness that broadcasts in the sync room of the space
onUpdateAwarenessInSyncRoom(c, m) ==
  LET roomType == AwarenessRoomType(m.docId)
      roomName == AdapterRoom(m.spaceType, m.spaceId, "sync")
      t == [NewTask("space:update-awareness", m) EXCEPT !.rt = roomType]
  IN IF AssertInThrows(c, m.spaceType, m.spaceId, roomType)
     THEN Finish(c, t, "recv", "NotInSpace", Nil, None)
     ELSE [Finish(c, t, "recv", "none", NoData, None)
             EXCEPT !.emits =
               << Emit("space:broadcast-awareness-update", roomName,
                       To(c, roomName), m) >>]

onUpdateAwareness(c, m) ==
  LET roomType == AwarenessRoomType(m.docId)
      roomName == AdapterRoom(m.spaceType, m.spaceId, roomType)
      t == [NewTask("space:update-awareness", m) EXCEPT !.rt = roomType]
  IN IF AssertInThrows(c, m.spaceType, m.spaceId, roomType)
     THEN Finish(c, t, "recv", "NotInSpace", Nil, None)
     ELSE [Finish(c, t, "recv", "none", NoData, None)
             EXCEPT !.emits =
               << Emit("space:broadcast-awareness-update", roomName,
                       To(c, roomName), m) >>
               \o IF m.spaceType = Workspace
                  THEN << Emit("server-awareness-broadcast", roomName,
                               To(c, roomName),
                               [workspaceId |-> m.spaceId,
                                awarenessUpdate |-> m.awarenessUpdate]) >>
                  ELSE <<>>]

SpaceUpdateAwareness(c, m) ==
  /\ CanReceive(c)
  /\ Receive(c, onUpdateAwareness(c, m))

handleHelpGatheringAwareness(c, workspaceId, awarenessUpdate) ==
  onUpdateAwareness(c, [spaceType |-> Workspace, spaceId |-> workspaceId,
                        docId |-> workspaceId,
                        awarenessUpdate |-> awarenessUpdate])

AwarenessUpdate(c, workspaceId, awarenessUpdate) ==
  /\ CanReceive(c)
  /\ Receive(c, handleHelpGatheringAwareness(c, workspaceId, awarenessUpdate))

(***************************************************************************)
(* Messages a client may send, and the specifications.                     *)
(***************************************************************************)
UpdateLists == { << <<"Y", "W", "I", "=">> >>,
                 << <<"Y", "R", "=", "=">>, <<"Y", "W", "I", "=">> >> }
Sinces == {None, Some(1)}

\* The space ids and doc ids clients put in their messages are strings the
\* client chooses; a workspace id and a userspace id (a user id) may be the same
\* string.  PlainIds and ColonIds are the ids the clients of a run use: the
\* doc ids of ColonIds have a ':' in them.  AnyIds are ids a client may use.
PlainIds == [space |-> {"u1"}, doc |-> {"d"}]
ColonIds == [space |-> {"u1"}, doc |-> {"d:d"}]
AnyIds == [space |-> {"w1", "u1", "u1:d"}, doc |-> {"d", "d:d"}]

JoinSpaceMessages(I) ==
  [spaceType : SpaceTypes, spaceId : I.space, clientVersion : Versions]
JoinSpaceAwarenessMessages(I) ==
  [spaceType : SpaceTypes, spaceId : I.space, docId : I.doc,
   clientVersion : Versions]
LeaveSpaceMessages(I) == [spaceType : SpaceTypes, spaceId : I.space]
LeaveSpaceAwarenessMessages(I) ==
  [spaceType : SpaceTypes, spaceId : I.space, docId : I.doc]
LoadDocMessages(I) ==
  [spaceType : SpaceTypes, spaceId : I.space, docId : I.doc,
   stateVector : StateVectors]
DeleteDocMessages(I) ==
  [spaceType : SpaceTypes, spaceId : I.space, docId : I.doc]
PushDocUpdatesMessages(I) ==
  [spaceType : SpaceTypes, spaceId : I.space, docId : I.doc, updates : UpdateLists]
PushDocUpdateMessages(I) ==
  [spaceType : SpaceTypes, spaceId : I.space, docId : I.doc, update : Updates]
LoadDocTimestampsMessages(I) ==
  [spaceType : SpaceTypes, spaceId : I.space, timestamp : Sinces]
LoadSpaceAwarenessesMessages(I) ==
  [spaceType : SpaceTypes, spaceId : I.space, docId : I.doc]
UpdateAwarenessMessages(I) ==
  [spaceType : SpaceTypes, spaceId : I.space, docId : I.doc,
   awarenessUpdate : Updates]

\* the awaits of calls to the runtime config, the permission service and the
\* doc storage: the promises that can be rejected with an error of the callee
ExternalCalls == {"version", "permission", "diff", "push", "delete", "timestamps"}

\* the error of an external call that fails; the handlers have no try/catch
CallError == "InternalError"

\* the call that t awaits is rejected: the handler ends by throwing the error
\* of the call, and has joined, emitted and stored nothing in this step
AfterFailure(t) == Finish(t.c, t, t.pc, CallError, Nil, None)

CallFails(t) ==
  /\ BagIn(t, tasks) /\ t.pc \in ExternalCalls
  /\ Return(t, t.pc, AfterFailure(t))

\* connections open and close
Lifecycle ==
  \/ \E c \in Conns : HandleConnection(c)
  \/ \E c \in Conns : HandleDisconnect(c)

\* the awaits of the handlers of both message surfaces return
Returns ==
  \/ \E t \in InFlight, flag \in BOOLEAN : VersionReturn(t, flag)
  \/ \E t \in InFlight, isWorkspaceMember \in BOOLEAN :
       PermissionReturn(t, isWorkspaceMember)
  \/ \E t \in InFlight : DiffReturn(t)
  \/ \E t \in InFlight : PushReturn(t)
  \/ \E t \in InFlight : TimestampsReturn(t)
  \/ \E t \in InFlight : CallFails(t)

\* the current message surface, with ids from I
Current(I) ==
  \/ \E c \in Conns, m \in JoinSpaceMessages(I) : SpaceJoin(c, m)
  \/ \E t \in InFlight : AccessibleReturn(t)
  \/ \E c \in Conns, m \in LeaveSpaceMessages(I) : SpaceLeave(c, m)
  \/ \E c \in Conns, m \in LoadDocMessages(I) : SpaceLoadDoc(c, m)
  \/ \E c \in Conns, m \in DeleteDocMessages(I) : SpaceDeleteDoc(c, m)
  \/ \E t \in InFlight : DeleteReturn(t)
  \/ \E c \in Conns, m \in PushDocUpdatesMessages(I) : SpacePushDocUpdates(c, m)
  \/ \E c \in Conns, m \in PushDocUpdateMessages(I) : SpacePushDocUpdate(c, m)
  \/ \E c \in Conns, m \in LoadDocTimestampsMessages(I) :
       SpaceLoadDocTimestamps(c, m)
  \/ \E c \in Conns, m \in JoinSpaceAwarenessMessages(I) : SpaceJoinAwareness(c, m)
  \/ \E c \in Conns, m \in LeaveSpaceAwarenessMessages(I) :
       SpaceLeaveAwareness(c, m)
  \/ \E c \in Conns, m \in LoadSpaceAwarenessesMessages(I) :
       SpaceLoadAwarenesses(c, m)
  \/ \E c \in Conns, m \in UpdateAwarenessMessages(I) : SpaceUpdateAwareness(c, m)

\* the deprecated message surface, with ids from I
Legacy(I) ==
  \/ \E c \in Conns, w \in I.space, v \in Versions : ClientHandshakeSync(c, w, v)
  \/ \E t \in InFlight, flag \in BOOLEAN : HandshakeVersionReturn(t, flag)
  \/ \E c \in Conns, w \in I.space : ClientLeaveSync(c, w)
  \/ \E c \in Conns, w \in I.space, ts \in Sinces : ClientPreSync(c, w, ts)
  \/ \E c \in Conns, w \in I.space, d \in I.doc, us \in UpdateLists :
       ClientUpdateV2(c, w, d, us)
  \/ \E c \in Conns, w \in I.space, d \in I.doc, sv \in StateVectors :
       DocLoadV2(c, w, d, sv)
  \/ \E c \in Conns, w \in I.space, v \in Versions : ClientHandshakeAwareness(c, w, v)
  \/ \E c \in Conns, w \in I.space : ClientLeaveAwareness(c, w)
  \/ \E c \in Conns, w \in I.space : AwarenessInit(c, w)
  \/ \E c \in Conns, w \in I.space, u \in Updates : AwarenessUpdate(c, w, u)

\* clients on the current message surface whose doc ids have no ':' in them
Next == Lifecycle \/ Current(PlainIds) \/ Returns

Spec == Init /\ [][Next]_vars

\* clients on the deprecated message surface
NextLegacy == Lifecycle \/ Legacy(PlainIds) \/ Returns

SpecLegacy == Init /\ [][NextLegacy]_vars

\* clients on the current message surface whose doc ids have ':' in them
NextColon == Lifecycle \/ Current(ColonIds) \/ Returns

SpecColon == Init /\ [][NextColon]_vars

\* an await of a handler in flight is over: its call returns or fails
SomeReturn ==
  \/ \E t \in InFlight, flag \in BOOLEAN : VersionReturn(t, flag)
  \/ \E t \in InFlight, isWorkspaceMember \in BOOLEAN :
       PermissionReturn(t, isWorkspaceMember)
  \/ \E t \in InFlight : DiffReturn(t)
  \/ \E t \in InFlight : PushReturn(t)
  \/ \E t \in InFlight : TimestampsReturn(t)
  \/ \E t \in InFlight : DeleteReturn(t)
  \/ \E t \in InFlight : AccessibleReturn(t)
  \/ \E t \in InFlight : CallFails(t)

\* Spec, where every await of a handler is over in the end
SpecFair == Spec /\ WF_vars(SomeReturn)

(***************************************************************************)
(* Properties.  Each is stated of what a handler leaves when it is run in  *)
(* a reachable state.  A join, below, is SyncSocketAdapter.join: a join    *)
(* handler reaches it once runtime.fetch has answered and its version      *)
(* check has passed.                                                       *)
(***************************************************************************)
SyncRoomOf(m) == AdapterRoom(m.spaceType, m.spaceId, "sync")
AwarenessRoomOf(m) ==
  AdapterRoom(m.spaceType, m.spaceId, AwarenessRoomType(m.docId))

\* the version check lets a message declaring `version` pass when runtime.fetch
\* answers flag
Passes(flag, version) == ~flag \/ version = Some(ServerVersion)

\* c has connected: it may have sent messages, whose handlers may be in flight
HasConnected(c) == status[c] # "idle"

\* what a join-space of c with message m leaves when runtime.fetch answers
\* flag in this state
JoinSpaceOutcome(c, m, flag) == AfterVersion(onJoinSpace(c, m).task, flag)

\* what a join-space-awareness of c with message m leaves when runtime.fetch
\* answers flag in this state
JoinAwarenessOutcome(c, m, flag) == AfterVersion(onJoinAwareness(c, m).task, flag)

\* the outcome out of a join, taken on to the end of the join when it stands at
\* the await of assertAccessible of the userspace adapter and resumes with no
\* step of another handler in between
JoinEnded(out) ==
  IF out.task # Nil /\ out.task.pc = "accessible"
  THEN AfterAccessible(out.task)
  ELSE out

\* the handler of c ends at once with NotInSpace; nothing else changes
RaisesNotInSpace(c, out) ==
  /\ out.last.done /\ out.last.err = "NotInSpace"
  /\ out.task = Nil
  /\ out.rooms = rooms /\ out.docs = docs /\ out.emits = <<>>

\* C1: a connection that is not a member of the sync room of (t, s) gets
\* NotInSpace from load-doc, delete-doc, push-doc-update, push-doc-updates and
\* load-doc-timestamps on (t, s), whatever other rooms it has joined or left
\* and whatever handlers of it are in flight; no storage call is issued
C1_NotInSpaceOutsideSyncRoom ==
  \A c \in Conns :
    CanReceive(c) =>
      /\ \A m \in LoadDocMessages(AnyIds) :
           SyncRoomOf(m) \notin rooms[c]
             => RaisesNotInSpace(c, onLoadSpaceDoc(c, m))
      /\ \A m \in DeleteDocMessages(AnyIds) :
           SyncRoomOf(m) \notin rooms[c]
             => RaisesNotInSpace(c, onDeleteSpaceDoc(c, m))
      /\ \A m \in PushDocUpdateMessages(AnyIds) :
           SyncRoomOf(m) \notin rooms[c]
             => RaisesNotInSpace(c, onReceiveDocUpdate(c, m))
      /\ \A m \in PushDocUpdatesMessages(AnyIds) :
           SyncRoomOf(m) \notin rooms[c]
             => RaisesNotInSpace(c, onReceiveDocUpdates(c, m))
      /\ \A m \in LoadDocTimestampsMessages(AnyIds) :
           SyncRoomOf(m) \notin rooms[c]
             => RaisesNotInSpace(c, onLoadDocTimestamps(c, m))

\* a push-doc-update got NotInSpace from a connection that is in the sync room
\* of another space
C1_Witness ==
  /\ last.h = "space:push-doc-update"
  /\ last.done /\ last.err = "NotInSpace"
  /\ \E t \in SpaceTypes, s \in AnyIds.space :
       AdapterRoom(t, s, "sync") \in rooms[last.c]

\* the ids of the joins whose outcomes are compared: a workspace id that is no
\* user's, and the id of a user
JoinIds == [space |-> {"w1", "u1"}, doc |-> {"d"}]

\* the join of c into roomName, run on a socket outside the room, is refused:
\* at once, or by the permission service it waits for when that answers FALSE;
\* c is not in the room
JoinRefused(c, roomName, out) ==
  /\ roomName \notin out.rooms[c]
  /\ out.last.err \in {"none", "SpaceAccessDenied"}
  /\ out.last.done => out.last.err = "SpaceAccessDenied"
  /\ ~out.last.done =>
       /\ out.task.pc = "permission"
       /\ LET end == AfterPermission(out.task, FALSE)
          IN /\ end.last.done /\ end.last.err = "SpaceAccessDenied"
             /\ roomName \notin end.rooms[c]

\* the room the join t is for
JoinRoomOf(t) == AdapterRoom(t.m.spaceType, t.m.spaceId, t.rt)

\* C2 as stated: a join of a workspace room by a user for whom the permission
\* service answers isWorkspaceMember = FALSE raises SpaceAccessDenied, and the
\* connection is not a member of the room afterwards
C2_AsStated ==
  /\ \A c \in Conns : HasConnected(c) =>
       \A flag \in BOOLEAN :
         /\ \A m \in JoinSpaceMessages(JoinIds) :
              (Passes(flag, m.clientVersion) /\ m.spaceType = Workspace)
                => JoinRefused(c, SyncRoomOf(m), JoinSpaceOutcome(c, m, flag))
         /\ \A m \in JoinSpaceAwarenessMessages(JoinIds) :
              (Passes(flag, m.clientVersion) /\ m.spaceType = Workspace)
                => JoinRefused(c, AwarenessRoomOf(m),
                               JoinAwarenessOutcome(c, m, flag))
  /\ \A t \in Awaiting("permission") :
       LET out == AfterPermission(t, FALSE)
       IN /\ out.last.done /\ out.last.err = "SpaceAccessDenied"
          /\ JoinRoomOf(t) \notin out.rooms[t.c]

\* C2, amended: a join of a workspace room that the connection is not a member
\* of when the join runs asks the permission service; when that answers
\* isWorkspaceMember = FALSE the join raises SpaceAccessDenied and adds no
\* membership: the connection is a member of the room afterwards only if it
\* got into it otherwise while the permission service was asked
C2_NonMemberRefused ==
  /\ \A c \in Conns : HasConnected(c) =>
       \A flag \in BOOLEAN :
         /\ \A m \in JoinSpaceMessages(JoinIds) :
              ( /\ Passes(flag, m.clientVersion)
                /\ m.spaceType = Workspace
                /\ SyncRoomOf(m) \notin rooms[c] )
                => JoinRefused(c, SyncRoomOf(m), JoinSpaceOutcome(c, m, flag))
         /\ \A m \in JoinSpaceAwarenessMessages(JoinIds) :
              ( /\ Passes(flag, m.clientVersion)
                /\ m.spaceType = Workspace
                /\ AwarenessRoomOf(m) \notin rooms[c] )
                => JoinRefused(c, AwarenessRoomOf(m),
                               JoinAwarenessOutcome(c, m, flag))
  /\ \A t \in Awaiting("permission") :
       LET out == AfterPermission(t, FALSE)
       IN /\ out.last.done /\ out.last.err = "SpaceAccessDenied"
          /\ out.rooms = rooms
          /\ JoinRoomOf(t) \notin rooms[t.c] => JoinRoomOf(t) \notin out.rooms[t.c]

\* the permission service answered FALSE and the join was refused
C2_Witness ==
  /\ last.step = "permission"
  /\ last.ret = Some(FALSE)
  /\ last.done /\ last.err = "SpaceAccessDenied"
  /\ rooms[last.c] = {}

\* the join of c on space id spaceId succeeds exactly when spaceId is the id
\* of its user, and is otherwise refused with SpaceAccessDenied and no change
\* of membership
SelfOnly(c, spaceId, out) ==
  /\ out.last.done
  /\ (out.last.err = "none") <=> (spaceId = UserOf(c))
  /\ spaceId # UserOf(c) =>
       out.last.err = "SpaceAccessDenied" /\ out.rooms = rooms

\* C3 as stated: a join of a userspace room succeeds if and only if the space
\* id is the id of the acting user; with any other space id it raises
\* SpaceAccessDenied and adds no membership; so no connection is ever a member
\* of a userspace room whose space id is not the id of its user
C3_UserspaceSelfOnly ==
  /\ \A c \in Conns :
       /\ \A s \in AnyIds.space, d \in AnyIds.doc :
            \/ s = UserOf(c)
            \/ /\ ~In(c, Userspace, s, "sync")
               /\ ~In(c, Userspace, s, AwarenessRoomType(d))
       /\ HasConnected(c) =>
         \A flag \in BOOLEAN :
           /\ \A m \in JoinSpaceMessages(AnyIds) :
                (Passes(flag, m.clientVersion) /\ m.spaceType = Userspace)
                  => SelfOnly(c, m.spaceId, JoinEnded(JoinSpaceOutcome(c, m, flag)))
           /\ \A m \in JoinSpaceAwarenessMessages(AnyIds) :
                (Passes(flag, m.clientVersion) /\ m.spaceType = Userspace)
                  => SelfOnly(c, m.spaceId,
                              JoinEnded(JoinAwarenessOutcome(c, m, flag)))
  /\ \A t \in Awaiting("accessible") :
       SelfOnly(t.c, t.m.spaceId, AfterAccessible(t))

\* the join of c ends at once with success: no access check, no change of
\* membership
JoinsAgain(c, out) ==
  /\ out.last.done /\ out.last.err = "none" /\ out.last.reply = JoinReply(c)
  /\ out.last.acc = 0 /\ out.task = Nil
  /\ out.rooms = rooms

\* C4: a join that finds the connection already a member of its room leaves
\* the membership as it is, performs no access check and returns success,
\* whatever the permission service would answer
C4_JoinIdempotent ==
  \A c \in Conns :
    HasConnected(c) =>
      \A flag \in BOOLEAN :
        /\ \A m \in JoinSpaceMessages(AnyIds) :
             (Passes(flag, m.clientVersion) /\ SyncRoomOf(m) \in rooms[c])
               => JoinsAgain(c, JoinSpaceOutcome(c, m, flag))
        /\ \A m \in JoinSpaceAwarenessMessages(AnyIds) :
             (Passes(flag, m.clientVersion) /\ AwarenessRoomOf(m) \in rooms[c])
               => JoinsAgain(c, JoinAwarenessOutcome(c, m, flag))

\* a join ended with success and without an access check, which only the join
\* of a room already joined does
C4_Witness ==
  /\ last.h \in JoinHandlers
  /\ last.step = "version"
  /\ last.done /\ last.err = "none" /\ last.acc = 0
  /\ rooms[last.c] # {}

\* the leave of c ends with success and changes nothing
LeavesNothing(c, out) ==
  /\ out.last.done /\ out.last.err = "none" /\ out.last.reply = JoinReply(c)
  /\ out.task = Nil
  /\ out.rooms = rooms /\ out.docs = docs /\ out.emits = <<>>

\* C5: a leave of a room the connection is not a member of raises no error,
\* returns {clientId, success: true}, and changes no membership and no storage
C5_LeaveOutsideRoom ==
  \A c \in Conns :
    CanReceive(c) =>
      /\ \A m \in LeaveSpaceMessages(AnyIds) :
           SyncRoomOf(m) \notin rooms[c] => LeavesNothing(c, onLeaveSpace(c, m))
      /\ \A m \in LeaveSpaceAwarenessMessages(AnyIds) :
           AwarenessRoomOf(m) \notin rooms[c]
             => LeavesNothing(c, onLeaveAwareness(c, m))

\* a leave was the first message of all: it succeeded before any join
C5_Witness ==
  /\ sent = 1
  /\ last.h \in {"space:leave", "space:leave-awareness"}
  /\ last.done /\ last.err = "none" /\ last.reply = JoinReply(last.c)

\* the handler of c ends with VersionRejected and emits one
\* server-version-rejected, which reaches the connections in to
RejectsOnce(c, out, to) ==
  /\ out.last.done /\ out.last.err = "VersionRejected" /\ out.last.rej = 1
  /\ out.task = Nil
  /\ Len(out.emits) = 1
  /\ out.emits[1].ev = "server-version-rejected"
  /\ out.emits[1].to = to

\* every join and handshake with a version that is not the server's, with the
\* flag on, is rejected once, the notification reaching Recipients[c]
RejectedOnceTo(Recipients) ==
  \A c \in Conns :
    HasConnected(c) =>
      \A v \in Versions \ {Some(ServerVersion)} :
        /\ \A m \in JoinSpaceMessages(AnyIds) :
             m.clientVersion = v
               => RejectsOnce(c, JoinSpaceOutcome(c, m, TRUE), Recipients[c])
        /\ \A m \in JoinSpaceAwarenessMessages(AnyIds) :
             m.clientVersion = v
               => RejectsOnce(c, JoinAwarenessOutcome(c, m, TRUE), Recipients[c])
        /\ \A w \in AnyIds.space :
             RejectsOnce(c, AfterHandshakeVersion(
                              handleClientHandshakeSync(c, w, v).task, TRUE),
                         Recipients[c])

\* C6 as stated: with the flag on, a join-space, join-space-awareness or
\* client-handshake-sync message whose declared version is not the server's, or
\* is absent, raises VersionRejected and emits exactly one
\* server-version-rejected, delivered to the calling connection
C6_AsStated == RejectedOnceTo([c \in Conns |-> {c}])

\* C6, amended: with the flag on, a join-space, join-space-awareness or
\* client-handshake-sync message whose declared version is not the server's, or
\* is absent, raises VersionRejected and emits exactly one
\* server-version-rejected on the socket of the caller: it is delivered to the
\* calling connection if that is still connected when the flag has been
\* fetched, and to no connection otherwise
C6_VersionRejected == RejectedOnceTo([c \in Conns |-> Self(c)])

\* a client-handshake-sync was rejected with the flag on
C6_Witness ==
  /\ last.h = "client-handshake-sync"
  /\ last.step = "version"
  /\ last.ret = Some(TRUE)
  /\ last.err = "VersionRejected"
  /\ Len(emits) = 1 /\ emits[1].to = {last.c}

\* the handler raises no VersionRejected and emits no server-version-rejected
NotRejected(out) ==
  /\ out.last.err # "VersionRejected" /\ out.last.rej = 0
  /\ \A i \in DOMAIN out.emits : out.emits[i].ev # "server-version-rejected"

\* m, declaring the server's version
WithServerVersion(m) == [m EXCEPT !.clientVersion = Some(ServerVersion)]

\* C7: with the flag off, a join with any declared version, an absent one
\* included, raises no VersionRejected and emits no server-version-rejected,
\* and ends as the join that declares the server's version does
C7_FlagOffAccepts ==
  \A c \in Conns :
    HasConnected(c) =>
      /\ \A m \in JoinSpaceMessages(JoinIds) :
           m.clientVersion # Some(ServerVersion) =>
             LET out == JoinSpaceOutcome(c, m, FALSE)
             IN /\ NotRejected(out)
                /\ out = JoinSpaceOutcome(c, WithServerVersion(m), FALSE)
      /\ \A m \in JoinSpaceAwarenessMessages(JoinIds) :
           m.clientVersion # Some(ServerVersion) =>
             LET out == JoinAwarenessOutcome(c, m, FALSE)
             IN /\ NotRejected(out)
                /\ out = JoinAwarenessOutcome(c, WithServerVersion(m), FALSE)

\* a join went on to the access check of its room with the flag off
C7_Witness ==
  /\ last.h \in JoinHandlers
  /\ last.step = "version"
  /\ last.ret = Some(FALSE)
  /\ ~last.done /\ last.err = "none" /\ last.rej = 0 /\ last.acc = 1
  /\ \E t \in InFlight : t.c = last.c /\ t.pc \in {"permission", "accessible"}

\* the handler of c rejects the version: no access check was issued and no
\* membership changed
RejectsBeforeJoin(c, out) ==
  /\ out.last.done /\ out.last.err = "VersionRejected"
  /\ out.last.acc = 0 /\ out.task = Nil
  /\ out.rooms = rooms

\* C8: in join-space and join-space-awareness the version check comes before
\* the join: when it rejects, no access check is issued and the membership of
\* the connection is unchanged
C8_VersionCheckFirst ==
  \A c \in Conns :
    HasConnected(c) =>
      /\ \A m \in JoinSpaceMessages(AnyIds) :
           m.clientVersion # Some(ServerVersion)
             => RejectsBeforeJoin(c, JoinSpaceOutcome(c, m, TRUE))
      /\ \A m \in JoinSpaceAwarenessMessages(AnyIds) :
           m.clientVersion # Some(ServerVersion)
             => RejectsBeforeJoin(c, JoinAwarenessOutcome(c, m, TRUE))

\* a join-space-awareness of a connection that has joined a room was rejected
C8_Witness ==
  /\ last.h = "space:join-awareness"
  /\ last.err = "VersionRejected" /\ last.acc = 0
  /\ rooms[last.c] # {}

\* C9: load-doc raises DocNotFound exactly when the diff is null; otherwise it
\* raises nothing and replies the diff's missing and state, in base64, and its
\* timestamp
C9_LoadDoc ==
  \A t \in Awaiting("diff") :
    \A doc \in DiffAnswers(t) :
      LET out == AfterDiff(t, doc)
      IN /\ out.last.done
         /\ (out.last.err = "DocNotFound") <=> (doc = Nil)
         /\ doc # Nil =>
              /\ out.last.err = "none"
              /\ Base64Decode(out.last.reply.missing) = doc.missing
              /\ Base64Decode(out.last.reply.state) = doc.state
              /\ out.last.reply.timestamp = doc.timestamp

\* a load-doc replied a diff with nothing missing and a state
C9_Witness ==
  /\ last.h = "space:load-doc" /\ last.step = "diff"
  /\ last.err = "none"
  /\ last.ret[1].missing = <<>>
  /\ Len(last.reply.state) > 0

\* C10: when the push of a push-doc-update on a workspace returns timestamp T,
\* the reply is {accepted: true, timestamp: T} and every other connection in
\* the sync room of the workspace receives space:broadcast-doc-update with the
\* spaceId, docId and update of the message, T, and the user id of the sender
C10_PushDocUpdate ==
  \A t \in Awaiting("push") :
    (t.h = "space:push-doc-update" /\ t.m.spaceType = Workspace) =>
      LET m == t.m
          out == AfterPush(t)
          T == NextTimestamp
          others == {d \in Conns \ {t.c} :
                       status[d] = "open" /\ SyncRoomOf(m) \in rooms[d]}
      IN /\ out.last.done /\ out.last.err = "none"
         /\ out.last.ret = Some(T)
         /\ out.docs[Workspace][<<m.spaceId, t.call.docId>>].ts = T
         /\ out.last.reply = [accepted |-> TRUE, timestamp |-> T]
         /\ \E i \in DOMAIN out.emits :
              /\ out.emits[i].ev = "space:broadcast-doc-update"
              /\ out.emits[i].to = others
              /\ out.emits[i].data =
                   [spaceType |-> Workspace, spaceId |-> m.spaceId,
                    docId |-> m.docId, update |-> m.update,
                    timestamp |-> T, editor |-> UserOf(t.c)]

\* a push-doc-update on a workspace was broadcast to another connection
C10_Witness ==
  /\ last.h = "space:push-doc-update" /\ last.step = "push"
  /\ \E i \in DOMAIN emits :
       /\ emits[i].ev = "space:broadcast-doc-update"
       /\ emits[i].data.spaceType = Workspace
       /\ emits[i].to # {}

\* the connected members of room roomName
Members(roomName) ==
  {d \in Conns : status[d] = "open" /\ roomName \in rooms[d]}

\* C11: when a member of the awareness room of (space, doc) sends
\* update-awareness with payload P, space:broadcast-awareness-update is emitted
\* once, with payload P, and its recipients are exactly the other members of
\* that awareness room: not the sender, and no connection outside the room
C11_AwarenessBroadcast ==
  \A c \in Conns :
    CanReceive(c) =>
      \A m \in UpdateAwarenessMessages(AnyIds) :
        AwarenessRoomOf(m) \in rooms[c] =>
          LET out == onUpdateAwareness(c, m)
              sentTo == {i \in DOMAIN out.emits :
                          out.emits[i].ev = "space:broadcast-awareness-update"}
          IN /\ out.last.done /\ out.last.err = "none"
             /\ Cardinality(sentTo) = 1
             /\ \A i \in sentTo :
                  /\ out.emits[i].data.awarenessUpdate = m.awarenessUpdate
                  /\ out.emits[i].to = Members(AwarenessRoomOf(m)) \ {c}
                  /\ c \notin out.emits[i].to

\* an update-awareness of a member reached another member of the awareness room
C11_Witness ==
  /\ last.h = "space:update-awareness"
  /\ last.done /\ last.err = "none"
  /\ \E i \in DOMAIN emits :
       /\ emits[i].ev = "space:broadcast-awareness-update"
       /\ emits[i].to # {}
       /\ emits[i].room \in rooms[last.c]

\* the push-doc-update message that a push-doc-updates message with one update
\* stands for, and the other way round
AsPushDocUpdate(m) ==
  [spaceType |-> m.spaceType, spaceId |-> m.spaceId, docId |-> m.docId,
   update |-> m.updates[1]]
AsPushDocUpdates(m) ==
  [spaceType |-> m.spaceType, spaceId |-> m.spaceId, docId |-> m.docId,
   updates |-> << m.update >>]

\* C12: for a connection in the sync room of workspace W, client-update-v2
\* {workspaceId: W, guid: D, updates: [u]} issues the storage call (space,
\* document, update list, editor) that push-doc-update {workspace, W, D, u}
\* issues, and when the push returns, the space:broadcast-doc-updates event of
\* the one is that of the other, to the same recipients
C12_ClientUpdateV2AsPushDocUpdate ==
  /\ \A c \in Conns :
       CanReceive(c) =>
         \A W \in AnyIds.space, D \in AnyIds.doc, u \in Updates :
           In(c, Workspace, W, "sync") =>
             LET legacy == handleClientUpdateV2(c, W, D, << u >>)
                 current == onReceiveDocUpdate(c,
                              [spaceType |-> Workspace, spaceId |-> W,
                               docId |-> D, update |-> u])
             IN /\ legacy.task # Nil /\ current.task # Nil
                /\ legacy.task.pc = "push" /\ current.task.pc = "push"
                /\ legacy.task.call = current.task.call
                /\ legacy.task.call.updates = << Base64Decode(u) >>
                /\ AsPushDocUpdate(legacy.task.m) = current.task.m
                /\ legacy.rooms = current.rooms /\ legacy.docs = current.docs
                /\ legacy.emits = current.emits
  /\ \A t \in Awaiting("push") :
       /\ ( /\ t.m.spaceType = Workspace
            /\ t.h = "space:push-doc-updates"
            /\ Len(t.m.updates) = 1 ) =>
            LET out == AfterPush(t)
                other == DocUpdateEmits(t.c, AsPushDocUpdate(t.m), NextTimestamp)
            IN /\ out.emits[1].ev = "space:broadcast-doc-updates"
               /\ other[1].ev = "space:broadcast-doc-updates"
               /\ out.emits[1] = other[1]
               /\ out.last.reply = [accepted |-> TRUE, timestamp |-> NextTimestamp]
       /\ (t.m.spaceType = Workspace /\ t.h = "space:push-doc-update") =>
            LET out == AfterPush(t)
                other == DocUpdatesEmits(t.c, AsPushDocUpdates(t.m), NextTimestamp)
            IN /\ out.emits[1].ev = "space:broadcast-doc-updates"
               /\ out.emits[1] = other[1]

\* a client-update-v2 with one update was broadcast to another connection
C12_Witness ==
  /\ last.h = "space:push-doc-updates" /\ last.step = "push"
  /\ last.done /\ last.err = "none"
  /\ emits[1].ev = "space:broadcast-doc-updates"
  /\ Len(emits[1].data.updates) = 1
  /\ emits[1].to # {}

\* the room types of the doc ids a client may name
RoomTypes == {"sync"} \cup {AwarenessRoomType(d) : d \in AnyIds.doc}

\* the (spaceId, roomType) pairs that the adapter of spaceType names roomName
NamedBy(spaceType, roomName) ==
  {p \in AnyIds.space \X RoomTypes : AdapterRoom(spaceType, p[1], p[2]) = roomName}

\* C13 as stated: room(spaceId, roomType) is "<spaceType>:<spaceId>:<roomType>",
\* and for a fixed space type no two different (spaceId, roomType) pairs yield
\* the same name: every room a connection has joined is the room of one pair
C13_RoomInjective ==
  /\ \A t \in SpaceTypes, s \in AnyIds.space, rt \in RoomTypes :
       AdapterRoom(t, s, rt) = t \o ":" \o s \o ":" \o rt
  /\ \A c \in Conns, t \in SpaceTypes :
       \A roomName \in rooms[c] : Cardinality(NamedBy(t, roomName)) <= 1


\* the handler of c ends at once with an error: no membership changes, no
\* storage call is issued, nothing is emitted
NoEffect(c, out) ==
  /\ out.last.done /\ out.last.err # "none"
  /\ out.task = Nil
  /\ out.rooms = rooms /\ out.docs = docs /\ out.emits = <<>>

\* the document operations are without effect outside the sync room
DocOperationsNeedSyncRoom(c) ==
  /\ \A m \in LoadDocMessages(AnyIds) :
       SyncRoomOf(m) \notin rooms[c] => NoEffect(c, onLoadSpaceDoc(c, m))
  /\ \A m \in DeleteDocMessages(AnyIds) :
       SyncRoomOf(m) \notin rooms[c] => NoEffect(c, onDeleteSpaceDoc(c, m))
  /\ \A m \in PushDocUpdateMessages(AnyIds) :
       SyncRoomOf(m) \notin rooms[c] => NoEffect(c, onReceiveDocUpdate(c, m))
  /\ \A m \in PushDocUpdatesMessages(AnyIds) :
       SyncRoomOf(m) \notin rooms[c] => NoEffect(c, onReceiveDocUpdates(c, m))
  /\ \A m \in LoadDocTimestampsMessages(AnyIds) :
       SyncRoomOf(m) \notin rooms[c] => NoEffect(c, onLoadDocTimestamps(c, m))


\* C14 as stated: every operation on a space other than join-space (load-doc,
\* delete-doc, both pushes, load-doc-timestamps, join-space-awareness,
\* load-awarenesses, update-awareness) takes effect only if the connection is a
\* member of the sync room of that space
C14_AsStated ==
  \A c \in Conns :
    CanReceive(c) =>
      /\ DocOperationsNeedSyncRoom(c)
      /\ \A m \in JoinSpaceAwarenessMessages(AnyIds), flag \in BOOLEAN :
           SyncRoomOf(m) \notin rooms[c]
             => NoEffect(c, JoinEnded(JoinAwarenessOutcome(c, m, flag)))
      /\ \A m \in LoadSpaceAwarenessesMessages(AnyIds) :
           SyncRoomOf(m) \notin rooms[c] => NoEffect(c, onLoadAwareness(c, m))
      /\ \A m \in UpdateAwarenessMessages(AnyIds) :
           SyncRoomOf(m) \notin rooms[c] => NoEffect(c, onUpdateAwareness(c, m))

\* C14, amended: load-doc, delete-doc, both pushes and load-doc-timestamps take
\* effect only if the connection is a member of the sync room of the space;
\* load-awarenesses and update-awareness take effect only if it is a member of
\* the awareness room of (space, doc); join-space-awareness needs no membership:
\* a connection in no room joins the awareness room of a doc of its own
\* userspace
C14_GuardedByRoom ==
  \A c \in Conns :
    CanReceive(c) =>
      /\ DocOperationsNeedSyncRoom(c)
      /\ \A m \in LoadSpaceAwarenessesMessages(AnyIds) :
           AwarenessRoomOf(m) \notin rooms[c] => NoEffect(c, onLoadAwareness(c, m))
      /\ \A m \in UpdateAwarenessMessages(AnyIds) :
           AwarenessRoomOf(m) \notin rooms[c] => NoEffect(c, onUpdateAwareness(c, m))
      /\ rooms[c] = {} =>
           \A d \in AnyIds.doc, flag \in BOOLEAN :
             LET m == [spaceType |-> Userspace, spaceId |-> UserOf(c),
                       docId |-> d, clientVersion |-> Some(ServerVersion)]
                 out == JoinEnded(JoinAwarenessOutcome(c, m, flag))
             IN /\ out.last.done /\ out.last.err = "none"
                /\ out.rooms[c] = {AwarenessRoomOf(m)}


\* a load-awarenesses took effect for a connection that is in the awareness
\* room and not in the sync room of the space
C14_Witness ==
  /\ last.h = "space:load-awarenesses"
  /\ last.done /\ last.err = "none"
  /\ Len(emits) > 0
  /\ emits[1].room \in rooms[last.c]
  /\ AdapterRoom(emits[1].data.spaceType, emits[1].data.spaceId, "sync")
       \notin rooms[last.c]

\* the handlers that join or leave a room, and the disconnect
MembershipHandlers ==
  {"space:join", "space:join-awareness", "space:leave", "space:leave-awareness",
   "disconnect"}

\* C15: the membership set of a connection changes only in a step of a join or
\* leave handler of that same connection, or at its disconnect: the steps of
\* load-doc, delete-doc, the pushes, load-doc-timestamps, load-awarenesses and
\* update-awareness change no membership set, and no step of connection A
\* changes the membership set of connection B
C15_MembershipOwned ==
  [][\A c \in Conns :
       rooms'[c] # rooms[c] => (last'.c = c /\ last'.h \in MembershipHandlers)]_vars

\* a join of one connection succeeded while another connection is in a room
C15_Witness ==
  /\ last.h \in {"space:join", "space:join-awareness"}
  /\ last.done /\ last.err = "none"
  /\ rooms[last.c] # {}
  /\ \E d \in Conns \ {last.c} : rooms[d] # {}

\* the connections currently open
OpenConns == {c \in Conns : status[c] = "open"}

\* C16: each connect adds exactly 1 to the connection counter and records +1
\* on the gauge, each disconnect subtracts exactly 1 and records -1, and no
\* other step touches either; so in every reachable state the counter is the
\* number of open connections, is not negative, and is the sum of the values
\* recorded on the gauge.
C16_ConnectionCounter ==
  /\ [](/\ connectionCount = Cardinality(OpenConns)
        /\ connectionCount >= 0
        /\ gauge = connectionCount)
  /\ [][IF last'.h = "connect"
          THEN connectionCount' = connectionCount + 1 /\ gauge' = gauge + 1
          ELSE IF last'.h = "disconnect"
          THEN connectionCount' = connectionCount - 1 /\ gauge' = gauge - 1
          ELSE connectionCount' = connectionCount /\ gauge' = gauge]_vars

\* C16 witness: a connection was closed while another one is open
C16_Witness ==
  /\ last.h = "disconnect"
  /\ status[last.c] = "closed"
  /\ OpenConns # {}
  /\ connectionCount = 1


\* the number of handler invocations of connection c in flight
InFlightOf(c) ==
  BagCardinality([t \in {x \in InFlight : x.c = c} |-> tasks[t]])

\* C17: a handler of a connection starts only when no other handler of the
\* same connection is in flight: after the step that receives a message, the
\* only handler of the connection that can be in flight is the one just
\* started (so a push sent right after a join never runs its assertIn before
\* the join has completed).
C17_OneAtATime ==
  last.step = "recv" => InFlightOf(last.c) <= (IF last.done THEN 0 ELSE 1)

PushHandlers == {"space:push-doc-updates", "space:push-doc-update"}

\* the base64 updates of a push message, in the order of the message
UpdatesOf(m) == IF "updates" \in DOMAIN m THEN m.updates ELSE << m.update >>

\* a push message was received in this step
PushReceived == last'.h \in PushHandlers /\ last'.step = "recv"

\* the push message received in this step was accepted: its sender is in the
\* sync room of the space
PushAccepted == PushReceived /\ last'.err = "none"

\* the call of the message received in this step: one more invocation is in
\* flight, at the storage, with the updates of the message, all of them and in
\* their order, whatever the storage holds
PushCalled ==
  /\ ~last'.done
  /\ \E t \in BagToSet(tasks') :
       /\ tasks' = tasks (+) SetToBag({t})
       /\ t.c = last'.c
       /\ t.pc = "push"
       /\ t.call.op = "pushDocUpdates"
       /\ t.call.updates =
            [i \in 1..Len(UpdatesOf(t.m)) |-> Base64Decode(UpdatesOf(t.m)[i])]
       /\ t.call.spaceId = t.m.spaceId
       /\ t.call.docId = StorageDocId(t.m.spaceType, t.m.spaceId, t.m.docId)
       /\ t.call.editorId = UserOf(t.c)
  /\ docs' = docs /\ clock' = clock /\ emits' = <<>>

\* a call answered in this step: the invocation is no longer in flight; one
\* timestamp, one broadcast of the updates of the message as they were sent
PushAnswered ==
  /\ last'.done /\ last'.err = "none"
  /\ clock' = clock + 1
  /\ last'.reply = [accepted |-> TRUE, timestamp |-> clock']
  /\ \E t \in Awaiting("push") :
       /\ tasks' = tasks (-) SetToBag({t})
       /\ t.c = last'.c
       /\ Len(emits') = 2 \/ (Len(emits') = 1 /\ t.m.spaceType # Workspace)
       /\ emits'[1].ev = "space:broadcast-doc-updates"
       /\ emits'[1].data.updates = UpdatesOf(t.m)
       /\ emits'[1].data.timestamp = clock'

\* pushDocUpdates calls that are issued and neither answered nor failed
PushesPending == BagCardinality([t \in Awaiting("push") |-> tasks[t]])

\* a call failed in this step: its invocation is no longer in flight; no
\* timestamp is taken and nothing is broadcast
PushFailed ==
  /\ last'.done /\ last'.err = CallError
  /\ clock' = clock /\ docs' = docs /\ emits' = <<>>
  /\ \E t \in Awaiting("push") : tasks' = tasks (-) SetToBag({t}) /\ t.c = last'.c

\* C18: every accepted push message issues exactly one pushDocUpdates call, in
\* the step that receives the message (so calls are issued in the order the
\* messages are handled), carrying the updates of the message undeduplicated
\* and in their order, whatever the storage already holds; no other step
\* issues a call; every answered call yields one timestamp and one broadcast
\* of the updates as sent, and a call that fails yields neither.
C18_OnePushPerMessage ==
  [][/\ PushAccepted => PushCalled
     /\ (PushReceived /\ last'.done) => last'.err = "NotInSpace"
     /\ PushesPending' = PushesPending + 1 <=> PushAccepted
     /\ PushesPending' <= PushesPending + 1
     /\ clock' + PushesPending' <= clock + PushesPending + 1
     /\ last'.step = "push" => IF last'.err = "none" THEN PushAnswered ELSE PushFailed]_vars


\* C18 witness: the same update was pushed twice to one doc, stored twice and
\* broadcast twice
C18_Witness ==
  /\ last.step = "push" /\ last.done
  /\ clock = 2
  /\ Len(emits) >= 1
  /\ LET m == emits[1].data
         u == Flatten([i \in 1..Len(m.updates) |-> Base64Decode(m.updates[i])])
     IN \E k \in DOMAIN docs[m.spaceType] :
          k[1] = m.spaceId /\ docs[m.spaceType][k].bin = u \o u

\* the outbound events sent with client.to(room)
RoomEvents ==
  {"space:broadcast-doc-updates", "space:broadcast-doc-update", "server-updates",
   "space:collect-awareness", "new-client-awareness-init",
   "space:broadcast-awareness-update", "server-awareness-broadcast"}

\* the outbound events the interface lists as broadcasts
BroadcastEvents == RoomEvents \cup {"server-version-rejected"}

\* the event goes to members of its room other than the connection whose
\* message triggered it
ToOthersInRoom(e) ==
  /\ last.c \notin e.to
  /\ \A d \in e.to : e.room \in rooms[d]

\* C19 as stated: every event listed as a broadcast, server-version-rejected
\* included, goes only to the other members of the computed room and never to
\* the connection whose message triggered it.
C19_AsStated ==
  \A i \in DOMAIN emits : emits[i].ev \in BroadcastEvents => ToOthersInRoom(emits[i])

\* C19: the seven events sent with client.to(room) go to exactly the other
\* connected members of the computed room and never to the connection whose
\* message triggered them; server-version-rejected goes to no room: it is sent
\* to the connection whose message was rejected and to no other.
C19_BroadcastToOthers ==
  \A i \in DOMAIN emits :
    /\ emits[i].ev \in BroadcastEvents
    /\ emits[i].ev \in RoomEvents =>
         /\ ToOthersInRoom(emits[i])
         /\ emits[i].to = Members(emits[i].room) \ {last.c}
    /\ emits[i].ev = "server-version-rejected" => emits[i].to = Self(last.c)

\* C19 witness: a legacy broadcast of a push reached another member of the
\* sync room while the pusher is a member of it too
C19_Witness ==
  \E i \in DOMAIN emits :
    /\ emits[i].ev = "server-updates"
    /\ emits[i].to # {}
    /\ last.c \notin emits[i].to
    /\ emits[i].room \in rooms[last.c]

\* the reshaped payload of a legacy message: spaceType = workspace, spaceId =
\* workspaceId, and the fields the current message has besides
Reshaped(workspaceId, rest) ==
  [k \in {"spaceType", "spaceId"} \cup DOMAIN rest |->
     IF k = "spaceType" THEN Workspace
     ELSE IF k = "spaceId" THEN workspaceId
     ELSE rest[k]]

\* two handler outcomes a client and the other connections cannot tell apart:
\* same error, same reply, same membership, same call awaited, same events,
\* same storage (the name of the handler put aside)
SameOutcome(a, b) ==
  [a EXCEPT !.last.h = "-"] = [b EXCEPT !.last.h = "-"]


\* the eight legacy handlers that only reshape their payload, against their
\* counterparts
LegacyForwards(c) ==
  /\ \A w \in AnyIds.space :
       /\ SameOutcome(handleLeaveSync(c, w), onLeaveSpace(c, Reshaped(w, <<>>)))
       /\ SameOutcome(handleLeaveAwareness(c, w),
                      onLeaveAwareness(c, Reshaped(w, [docId |-> w])))
       /\ SameOutcome(handleInitAwareness(c, w),
                      onLoadAwareness(c, Reshaped(w, [docId |-> w])))
       /\ \A u \in Updates :
            SameOutcome(handleHelpGatheringAwareness(c, w, u),
                        onUpdateAwareness(c, Reshaped(w, [docId |-> w,
                                                          awarenessUpdate |-> u])))
       /\ \A ts \in Sinces :
            SameOutcome(loadDocStats(c, w, ts),
                        onLoadDocTimestamps(c, Reshaped(w, [timestamp |-> ts])))
       /\ \A v \in Versions :
            SameOutcome(handleClientHandshakeAwareness(c, w, v),
                        onJoinAwareness(c, Reshaped(w, [docId |-> w,
                                                        clientVersion |-> v])))
  /\ \A w \in AnyIds.space, d \in AnyIds.doc :
       /\ \A us \in UpdateLists :
            SameOutcome(handleClientUpdateV2(c, w, d, us),
                        onReceiveDocUpdates(c, Reshaped(w, [docId |-> d,
                                                            updates |-> us])))
       /\ \A sv \in StateVectors :
            SameOutcome(loadDocV2(c, w, d, sv),
                        onLoadSpaceDoc(c, Reshaped(w, [docId |-> d,
                                                       stateVector |-> sv])))


\* client-handshake-sync of c, once runtime.fetch has answered flag1 to its own
\* assertVersion: its end, or the handler at the start of join-space
HandshakeChecked(c, w, v, flag1) ==
  AfterHandshakeVersion(handleClientHandshakeSync(c, w, v).task, flag1)

\* client-handshake-sync of c, from its message to the end of the version
\* checks, runtime.fetch answering flag1 to its own and flag2 to that of
\* join-space
HandshakeOutcome(c, w, v, flag1, flag2) ==
  LET own == HandshakeChecked(c, w, v, flag1)
  IN IF own.task = Nil THEN own ELSE AfterVersion(own.task, flag2)

\* C20 as stated: every legacy handler, client-handshake-sync included, has
\* the outcome of its counterpart on the reshaped payload, whatever the runtime
\* flag answers to the version check of the counterpart, with no check of its
\* own.
C20_AsStated ==
  \A c \in Conns : CanReceive(c) =>
    /\ LegacyForwards(c)
    /\ \A w \in AnyIds.space, v \in Versions, flag1, flag2 \in BOOLEAN :
         SameOutcome(HandshakeOutcome(c, w, v, flag1, flag2),
                     JoinSpaceOutcome(c, Reshaped(w, [clientVersion |-> v]),
                                      flag2))

\* C20: the eight legacy handlers other than client-handshake-sync have the
\* outcome of their counterpart on the reshaped payload.  client-handshake-sync
\* checks the version itself before it forwards to join-space, which checks it
\* again: rejected by its own check it ends with VersionRejected, one
\* server-version-rejected to the caller and no membership change, whatever
\* the check of join-space would answer; passed by its own check it is at the
\* start of join-space on the reshaped payload and has its outcome; so it has
\* the outcome of join-space whenever the runtime flag answers both checks
\* alike.
C20_LegacyForwards ==
  \A c \in Conns : CanReceive(c) =>
    /\ LegacyForwards(c)
    /\ \A w \in AnyIds.space, v \in Versions, flag1, flag2 \in BOOLEAN :
         LET m == Reshaped(w, [clientVersion |-> v])
             own == HandshakeChecked(c, w, v, flag1)
             out == HandshakeOutcome(c, w, v, flag1, flag2)
         IN /\ VersionMismatch(flag1, v) =>
                 /\ out.last.done /\ out.last.err = "VersionRejected"
                 /\ Len(out.emits) = 1
                 /\ out.emits[1].ev = "server-version-rejected"
                 /\ out.emits[1].to = {c}
                 /\ out.rooms = rooms /\ out.docs = docs
            /\ ~VersionMismatch(flag1, v) =>
                 /\ own.task = onJoinSpace(c, m).task
                 /\ own.rooms = rooms /\ own.emits = <<>>
                 /\ SameOutcome(out, JoinSpaceOutcome(c, m, flag2))
            /\ SameOutcome(out, JoinSpaceOutcome(c, m, flag1)) \/ flag1 # flag2

\* C20 witness: a connection joined with client-handshake-sync, past both
\* version checks, and its doc-load-v2 was answered by the storage
C20_Witness ==
  /\ last.h = "space:load-doc" /\ last.step = "diff"
  /\ last.done /\ last.err = "none"
  /\ \E w \in PlainIds.space : AdapterRoom(Workspace, w, "sync") \in rooms[last.c]

\* the connections that have disconnected
ClosedConns == {c \in Conns : status[c] = "closed"}

\* a push of a disconnected connection that waits at the storage is not
\* cancelled: when the storage answers, the updates are stored under a new
\* timestamp and the handler ends with accepted, as for an open connection
InFlightPushCompletes ==
  \A t \in Awaiting("push") :
    t.c \in ClosedConns =>
      LET out == AfterPush(t)
      IN /\ out.task = Nil /\ out.last.done /\ out.last.err = "none"
         /\ out.last.reply = [accepted |-> TRUE, timestamp |-> clock + 1]
         /\ out.clock = clock + 1 /\ out.docs # docs
         /\ Len(out.emits) >= 1
         /\ \A i \in DOMAIN out.emits :
              out.emits[i].to = Members(SyncRoomOf(t.m)) \ {t.c}

\* C21: a connection that has disconnected is a member of no room and is sent
\* no event; a push of it that was in flight at the disconnect still completes:
\* its answer is handled as for an open connection, and so is its failure.
C21_DisconnectedInNoRoom ==
  /\ \A c \in ClosedConns : rooms[c] = {}
  /\ \A i \in DOMAIN emits : emits[i].to \cap ClosedConns = {}
  /\ ReplyTo \cap ClosedConns = {}
  /\ (last.step = "push" /\ last.c \in ClosedConns) =>
       /\ last.done /\ last.err \in {"none", CallError}
       /\ last.err = "none" => clock > 0
  /\ InFlightPushCompletes

\* C21 witness: the push of a connection that disconnected while the storage
\* was called has been stored and broadcast to the other member of the room;
\* the connection is in no room
C21_Witness ==
  /\ last.step = "push" /\ last.c \in ClosedConns
  /\ last.done /\ last.err = "none"
  /\ rooms[last.c] = {}
  /\ clock > 0
  /\ Len(emits) >= 1 /\ emits[1].to # {} /\ last.c \notin emits[1].to

\* the current event and the legacy event of the three handlers that keep
\* backward compatibility
LegacyEventOf ==
  [h \in {"space:push-doc-updates", "space:load-awarenesses",
          "space:update-awareness"} |->
     IF h = "space:push-doc-updates"
     THEN [step |-> "push", ev |-> "space:broadcast-doc-updates",
           legacy |-> "server-updates"]
     ELSE IF h = "space:load-awarenesses"
     THEN [step |-> "recv", ev |-> "space:collect-awareness",
           legacy |-> "new-client-awareness-init"]
     ELSE [step |-> "recv", ev |-> "space:broadcast-awareness-update",
           legacy |-> "server-awareness-broadcast"]]

\* the room the current event of handler h is for
CompatRoomOf(h, data) ==
  IF h = "space:push-doc-updates" THEN SyncRoomOf(data) ELSE AwarenessRoomOf(data)

\* C22: a push-doc-updates that succeeded sent space:broadcast-doc-updates to
\* the sync room of its space, and after it server-updates to the same room
\* and the same sockets if and only if the space type is workspace; likewise
\* new-client-awareness-init after space:collect-awareness on load-awarenesses
\* and server-awareness-broadcast after space:broadcast-awareness-update on
\* update-awareness, to the awareness room; nothing else sends a legacy event.
C22_LegacyEventWorkspaceOnly ==
  /\ \A h \in DOMAIN LegacyEventOf :
       (last.h = h /\ last.step = LegacyEventOf[h].step /\ last.done
        /\ last.err = "none") =>
         /\ Len(emits) >= 1
         /\ emits[1].ev = LegacyEventOf[h].ev
         /\ emits[1].room = CompatRoomOf(h, emits[1].data)
         /\ IF emits[1].data.spaceType = Workspace
            THEN /\ Len(emits) = 2
                 /\ emits[2].ev = LegacyEventOf[h].legacy
                 /\ emits[2].room = emits[1].room
                 /\ emits[2].to = emits[1].to
            ELSE Len(emits) = 1
  /\ \A i \in DOMAIN emits :
       emits[i].ev \in {LegacyEventOf[h].legacy : h \in DOMAIN LegacyEventOf} =>
         /\ last.h \in DOMAIN LegacyEventOf
         /\ emits[i].ev = LegacyEventOf[last.h].legacy
         /\ i = 2
         /\ emits[1].data.spaceType = Workspace

\* C22 witness: a push-doc-updates to a userspace doc was answered and sent
\* space:broadcast-doc-updates alone
C22_Witness ==
  /\ last.h = "space:push-doc-updates" /\ last.step = "push" /\ last.done
  /\ Len(emits) = 1
  /\ emits[1].ev = "space:broadcast-doc-updates"
  /\ emits[1].data.spaceType = Userspace

\* the errors a handler raises
RaisedErrors == {"VersionRejected", "SpaceAccessDenied", "NotInSpace", "DocNotFound"}


\* what this step does to the handler invocations: a message received ends
\* its handler in the same step or its invocation is in flight after it; an
\* invocation in flight leaves only in a step of its own, which ends it or goes
\* on to the next await; a step that ends a handler ends one invocation;
\* connects and disconnects end none
EndsOnce ==
  /\ last'.step = "-" => tasks' = tasks
  /\ (last'.step = "recv" /\ last'.done) => tasks' = tasks
  /\ (last'.step = "recv" /\ ~last'.done) =>
       \E t \in BagToSet(tasks') :
         /\ tasks' = tasks (+) SetToBag({t})
         /\ t.c = last'.c /\ t.h = last'.h
  /\ (last'.step \notin {"-", "recv"} /\ last'.done) =>
       \E t \in InFlight :
         /\ tasks' = tasks (-) SetToBag({t})
         /\ t.c = last'.c /\ t.pc = last'.step
  /\ (last'.step \notin {"-", "recv"} /\ ~last'.done) =>
       \E t \in InFlight, u \in BagToSet(tasks') :
         /\ tasks' = (tasks (-) SetToBag({t})) (+) SetToBag({u})
         /\ t.c = last'.c /\ t.pc = last'.step
         /\ u.c = last'.c /\ u.h = last'.h /\ u.m.spaceId = t.m.spaceId

\* the error of a failed call ends an invocation that awaited a call, in a step
\* without effect
FailsAtCall ==
  last'.err = CallError =>
    /\ last'.done /\ last'.step \in ExternalCalls
    /\ rooms' = rooms /\ docs' = docs /\ clock' = clock /\ emits' = <<>>

\* the handler that ended in the step to this state is replied to, and the
\* caller gets the reply: the success response or one of the raised errors
RepliedAsStated ==
  last.done =>
    /\ last.err \in RaisedErrors \cup {"none"}
    /\ Response(last) # Nil
    /\ ReplyTo = {last.c}

\* the handler that ended in the step to this state threw one of Errors and is
\* replied that error, or returned its response and is replied that, or is
\* delete-doc, which returns nothing and has no reply; the reply reaches the
\* caller if it is connected and no other socket
Replied(Errors) ==
  last.done =>
    /\ last.err \in Errors \cup {"none"}
    /\ last.err # "none" => Response(last) = [error |-> last.err]
    /\ (last.err = "none" /\ last.h # "space:delete-doc") =>
         (last.reply # Nil /\ Response(last) = [data |-> last.reply])
    /\ (last.err = "none" /\ last.h = "space:delete-doc") => Response(last) = Nil
    /\ ReplyTo = IF Response(last) # Nil /\ status[last.c] = "open"
                 THEN {last.c} ELSE {}

\* C23 as stated: every handler invocation whose external calls return or fail
\* produces exactly one reply to the caller in the end, the success response
\* or one of VersionRejected, SpaceAccessDenied, NotInSpace, DocNotFound
C23_AsStated ==
  /\ []RepliedAsStated
  /\ [][EndsOnce]_vars
  /\ (tasks # EmptyBag) ~> (tasks = EmptyBag)

\* C23, amended: every handler invocation whose external calls return or fail
\* ends in the end, and ends once; its end has one reply, which reaches the
\* caller if it is still connected: the success response, one of
\* VersionRejected, SpaceAccessDenied, NotInSpace, DocNotFound, or, when a
\* call it awaited failed, the error of that call; only a delete-doc that
\* succeeds has none, because it returns nothing.
C23_ExactlyOneReply ==
  /\ []Replied(RaisedErrors \cup {CallError})
  /\ [][EndsOnce /\ FailsAtCall]_vars
  /\ (tasks # EmptyBag) ~> (tasks = EmptyBag)

\* C23 witness: a handler that was suspended at the storage ended with the
\* error of the call, which is replied to its connected caller, and no
\* invocation is left in flight
C23_Witness ==
  /\ last.done /\ last.step = "diff"
  /\ last.err = CallError
  /\ Response(last) = [error |-> CallError] /\ ReplyTo = {last.c}
  /\ tasks = EmptyBag


\* adapter.diff(spaceId, docId, stateVector) of the adapter of m.spaceType,
\* called on the socket c outside any handler guard
DiffCalled(c, m) ==
  AdapterDiff(c, NewTask("space:load-doc", m),
              [op |-> "getDocDiff", spaceType |-> m.spaceType,
               spaceId |-> m.spaceId,
               docId |-> StorageDocId(m.spaceType, m.spaceId, m.docId),
               stateVector |-> MaybeDecode(m.stateVector)])

\* the outcome raises NotInSpace and has read nothing
RefusedUnread(c, out) ==
  /\ out.last.done /\ out.last.err = "NotInSpace"
  /\ out.task = Nil

\* C24 as stated: on either adapter variant, diff called on a socket that is
\* not in the sync room of the space raises NotInSpace and reads nothing.
C24_AsStated ==
  \A c \in Conns : CanReceive(c) =>
    \A m \in LoadDocMessages(AnyIds) :
      AssertInThrows(c, m.spaceType, m.spaceId, "sync") =>
        RefusedUnread(c, DiffCalled(c, m))

\* C24: the diff of the userspace adapter asserts sync-room membership itself:
\* on a socket outside the room it raises NotInSpace and reads nothing.  The
\* diff of the workspace adapter asserts nothing: member or not, it reads the
\* doc of the guid from the doc reader.  The load-doc handler asserts
\* membership before it calls diff, so through the handler a socket outside
\* the room gets NotInSpace and nothing is read, for both space types.
C24_DiffGuard ==
  \A c \in Conns : CanReceive(c) =>
    \A m \in LoadDocMessages(AnyIds) :
      LET out == DiffCalled(c, m)
          outside == AssertInThrows(c, m.spaceType, m.spaceId, "sync")
      IN /\ (m.spaceType = Userspace /\ outside) => RefusedUnread(c, out)
         /\ (m.spaceType = Workspace \/ ~outside) =>
              /\ ~out.last.done
              /\ out.task.pc = "diff"
              /\ out.task.call.op = "getDocDiff"
              /\ out.task.call.docId =
                   StorageDocId(m.spaceType, m.spaceId, m.docId)
         /\ outside => RefusedUnread(c, onLoadSpaceDoc(c, m))


\* C24 witness: a load-doc on a workspace passed the guard of the handler and
\* waits for the diff of the workspace adapter, while its socket is outside
\* the sync room of the userspace of the same id
C24_Witness ==
  /\ last.h = "space:load-doc" /\ last.step = "recv" /\ ~last.done
  /\ \E t \in Awaiting("diff") :
       /\ t.c = last.c
       /\ t.call.spaceType = Workspace
       /\ AssertInThrows(last.c, Userspace, t.m.spaceId, "sync")


\* out is the outcome of a join of c on the room roomName, which the socket
\* was not in: joined, it is in the rooms it was in and in roomName; refused or
\* waiting for the access check, it is in the rooms it was in; the rooms of the
\* other sockets are as they were
JoinFrame(c, roomName, out) ==
  /\ IF out.last.done /\ out.last.err = "none"
     THEN /\ out.rooms[c] = rooms[c] \cup {roomName}
          /\ Cardinality(out.rooms[c] \ rooms[c]) = 1
     ELSE out.rooms[c] = rooms[c]
  /\ \A d \in Conns \ {c} : out.rooms[d] = rooms[d]


\* every join a socket may send, and every access check that may answer
JoinsFramed ==
  /\ \A c \in Conns : HasConnected(c) =>
       \A flag \in BOOLEAN :
         /\ \A m \in JoinSpaceMessages(JoinIds) :
              SyncRoomOf(m) \notin rooms[c] =>
                JoinFrame(c, SyncRoomOf(m), JoinSpaceOutcome(c, m, flag))
         /\ \A m \in JoinSpaceAwarenessMessages(JoinIds) :
              AwarenessRoomOf(m) \notin rooms[c] =>
                JoinFrame(c, AwarenessRoomOf(m), JoinAwarenessOutcome(c, m, flag))
  /\ \A t \in Awaiting("permission"), isWorkspaceMember \in BOOLEAN :
       LET out == AfterPermission(t, isWorkspaceMember)
       IN /\ (CanReceive(t.c) /\ JoinRoomOf(t) \notin rooms[t.c])
               => JoinFrame(t.c, JoinRoomOf(t), out)
          /\ ~CanReceive(t.c) => out.rooms = rooms
          /\ out.last.done
          /\ out.last.err = (IF isWorkspaceMember THEN "none"
                                                  ELSE "SpaceAccessDenied")
  /\ \A t \in Awaiting("accessible") :
       LET out == AfterAccessible(t)
       IN /\ (CanReceive(t.c) /\ JoinRoomOf(t) \notin rooms[t.c])
               => JoinFrame(t.c, JoinRoomOf(t), out)
          /\ ~CanReceive(t.c) => out.rooms = rooms
          /\ out.last.done
          /\ out.last.err = (IF t.m.spaceId = UserOf(t.c) THEN "none"
                                                         ELSE "SpaceAccessDenied")
  /\ \A t \in InFlight :
       (t.h \in JoinHandlers /\ t.pc \in ExternalCalls) =>
         LET out == AfterFailure(t)
         IN out.last.done /\ out.last.err = CallError /\ out.rooms = rooms


\* a room of a socket is lost only in a leave of that socket, which takes one
\* room away, or in its disconnect
KeptUntilLeave ==
  \A c \in Conns :
    rooms[c] \ rooms'[c] # {} =>
      /\ last'.c = c
      /\ last'.h \in {"space:leave", "space:leave-awareness", "disconnect"}
      /\ last'.h # "disconnect" =>
           (Cardinality(rooms[c] \ rooms'[c]) = 1 /\ rooms'[c] \subseteq rooms[c])

\* C25: a join on a room the socket is not in adds exactly that room to the
\* rooms of the socket when the access check passes and changes no room when
\* it fails; the other rooms of the socket and the rooms of the other sockets
\* stay; the room stays until a leave of the socket takes it away or the
\* socket disconnects.  The socket is a connected one: a join that resumes
\* after its socket has disconnected changes no room.
C25_JoinFrame ==
  /\ []JoinsFramed
  /\ [][KeptUntilLeave]_vars

\* C25 witness: a socket that was in a room joined a second room after the
\* permission service let it pass
C25_Witness ==
  /\ last.h \in {"space:join", "space:join-awareness"}
  /\ last.step = "permission" /\ last.done /\ last.err = "none"
  /\ status[last.c] = "open"
  /\ Cardinality(rooms[last.c]) = 2

\* a leave-space of c succeeds and leaves c outside the sync room of the space
LeaveSpaceLeaves(c) ==
  \A m \in LeaveSpaceMessages(AnyIds) :
    LET out == onLeaveSpace(c, m)
    IN /\ out.last.done /\ out.last.err = "none"
       /\ SyncRoomOf(m) \notin out.rooms[c]

\* outside the sync room, push, load-doc, delete-doc and load-doc-timestamps
\* raise NotInSpace and reach no storage
OutsideRaisesNotInSpace(c) ==
  /\ \A m \in LoadDocMessages(AnyIds) :
       SyncRoomOf(m) \notin rooms[c] => RaisesNotInSpace(c, onLoadSpaceDoc(c, m))
  /\ \A m \in DeleteDocMessages(AnyIds) :
       SyncRoomOf(m) \notin rooms[c] => RaisesNotInSpace(c, onDeleteSpaceDoc(c, m))
  /\ \A m \in PushDocUpdateMessages(AnyIds) :
       SyncRoomOf(m) \notin rooms[c] => RaisesNotInSpace(c, onReceiveDocUpdate(c, m))
  /\ \A m \in PushDocUpdatesMessages(AnyIds) :
       SyncRoomOf(m) \notin rooms[c] => RaisesNotInSpace(c, onReceiveDocUpdates(c, m))
  /\ \A m \in LoadDocTimestampsMessages(AnyIds) :
       SyncRoomOf(m) \notin rooms[c] =>
         RaisesNotInSpace(c, onLoadDocTimestamps(c, m))


\* outside the sync room, a join-space that passes the version check asks the
\* access control again: the permission service for a workspace, the user id
\* for a userspace; it joins only if the check passes
OutsideJoinChecksAccess(c) ==
  \A m \in JoinSpaceMessages(JoinIds), flag \in BOOLEAN :
    (SyncRoomOf(m) \notin rooms[c] /\ Passes(flag, m.clientVersion)) =>
      LET out == JoinSpaceOutcome(c, m, flag)
      IN /\ out.last.acc = 1
         /\ IF m.spaceType = Workspace
            THEN /\ ~out.last.done
                 /\ out.task.pc = "permission"
                 /\ out.task.call.op = "isWorkspaceMember"
                 /\ out.task.call.spaceId = m.spaceId
                 /\ out.task.call.userId = UserOf(c)
                 /\ out.rooms = rooms
                 /\ \A isWorkspaceMember \in BOOLEAN :
                      SyncRoomOf(m) \in AfterPermission(out.task,
                                                        isWorkspaceMember).rooms[c]
                        <=> isWorkspaceMember
            ELSE /\ ~out.last.done
                 /\ out.task.pc = "accessible"
                 /\ out.rooms = rooms
                 /\ LET end == AfterAccessible(out.task)
                    IN /\ end.last.done
                       /\ end.last.err = (IF m.spaceId = UserOf(c)
                                          THEN "none" ELSE "SpaceAccessDenied")
                       /\ SyncRoomOf(m) \in end.rooms[c] <=> m.spaceId = UserOf(c)


\* a socket gets into a room only in a join of its own
EntersByJoin ==
  \A c \in Conns :
    rooms'[c] \ rooms[c] # {} =>
      (last'.c = c /\ last'.h \in {"space:join", "space:join-awareness"})

\* C26: a leave-space leaves the connection outside the sync room of the
\* space; outside it, every push, load-doc, delete-doc and load-doc-timestamps
\* on the space raises NotInSpace; the connection gets back in only by a join of
\* its own, and that join asks the access control again.
C26_LeaveThenNotInSpace ==
  /\ [](\A c \in Conns : CanReceive(c) =>
          /\ LeaveSpaceLeaves(c)
          /\ OutsideRaisesNotInSpace(c)
          /\ OutsideJoinChecksAccess(c))
  /\ [][EntersByJoin]_vars

\* C26 witness: a connection that had pushed a doc as a member has left the
\* space and is in no room
C26_Witness ==
  /\ last.h = "space:leave" /\ last.done /\ last.err = "none"
  /\ status[last.c] = "open"
  /\ rooms[last.c] = {}
  /\ \E t \in SpaceTypes : \E k \in DOMAIN docs[t] :
       docs[t][k].editor = UserOf(last.c)

\* this step wrote nothing to the storage, changed no rooms and sent no event
\* to a socket other than the one whose handler ran
NoSharedEffect ==
  /\ rooms' = rooms
  /\ docs' = docs /\ clock' = clock
  /\ \A i \in DOMAIN emits' : emits'[i].to \subseteq {last'.c}

\* C27: a handler that raises NotInSpace, SpaceAccessDenied, VersionRejected
\* or DocNotFound has no effect on shared state: neither the step that raises
\* nor a step of the handler before it (one that ends at an await) writes to or
\* deletes from the storage, changes the rooms of a socket, or sends an event
\* to a socket other than the caller.
C27_ErrorsWithoutEffect ==
  [][/\ (last'.done /\ last'.err \in RaisedErrors) => NoSharedEffect
     /\ (last'.step # "-" /\ ~last'.done) =>
          (NoSharedEffect /\ emits' = <<>>)]_vars

\* C27 witness: the permission service refused a join while another
\* connection is in a room
C27_Witness ==
  /\ last.done /\ last.step = "permission"
  /\ last.err = "SpaceAccessDenied"
  /\ \E d \in Conns \ {last.c} : rooms[d] # {}

\* the events that carry doc updates
DocUpdateEvents ==
  {"space:broadcast-doc-updates", "space:broadcast-doc-update", "server-updates"}

\* the sync room of (t, s) is the room of no other space, of no other space
\* type and of no awareness room
SyncRoomApart(t, s) ==
  /\ \A t2 \in SpaceTypes, s2 \in AnyIds.space :
       AdapterRoom(t2, s2, "sync") = AdapterRoom(t, s, "sync") => (t2 = t /\ s2 = s)
  /\ \A t2 \in SpaceTypes, s2 \in AnyIds.space, d \in AnyIds.doc :
       AdapterRoom(t2, s2, AwarenessRoomType(d)) # AdapterRoom(t, s, "sync")

\* C28: the doc-update events of a push on space (t, s) go to the sync room of
\* (t, s), and only sockets in that room receive them; that room is the room of
\* no other space, of no awareness room and of no space of the other type with
\* the same id, so a socket that is only in such rooms receives nothing and
\* does not pass the membership guard of (t, s).
C28_DocUpdatesToSyncRoomOnly ==
  /\ \A t \in SpaceTypes, s \in AnyIds.space :
       /\ SyncRoomApart(t, s)
       /\ \A c \in Conns :
            AdapterRoom(t, s, "sync") \notin rooms[c] => AssertInThrows(c, t, s, "sync")
  /\ \A i \in DOMAIN emits :
       emits[i].ev \in DocUpdateEvents =>
         /\ last.step = "push"
         /\ emits[1].ev = "space:broadcast-doc-updates"
         /\ emits[i].room = SyncRoomOf(emits[1].data)
         /\ \A d \in Conns :
              SyncRoomOf(emits[1].data) \notin rooms[d] => d \notin emits[i].to

\* C28 witness: a push on a userspace was broadcast while another connected
\* socket is in the sync room of the workspace with the same id, and that
\* socket is not among the receivers
C28_Witness ==
  /\ last.step = "push" /\ last.done
  /\ Len(emits) >= 1
  /\ emits[1].data.spaceType = Userspace
  /\ \E d \in Conns \ {last.c} :
       /\ status[d] = "open"
       /\ AdapterRoom(Workspace, emits[1].data.spaceId, "sync") \in rooms[d]
       /\ d \notin emits[1].to


\* the handler went on to the storage call op without asking the access control
AcceptedUnchecked(c, out, op) ==
  /\ ~out.last.done
  /\ out.last.acc = 0
  /\ out.task.acc = 0
  /\ out.task.call.op = op

\* C29: a connection in the sync room of a workspace has its pushes, deletes
\* and loads on that workspace accepted without a question to the permission
\* service, and its join-space answered without one; this in a state where a
\* fresh access check on the workspace (that of a join-space-awareness) would
\* be answered with a refusal.  Access is asked at joins of rooms the
\* connection is not in, and nowhere else.
C29_AccessCheckedAtJoinOnly ==
  /\ \A c \in Conns : CanReceive(c) =>
       \A w \in AnyIds.space :
         AdapterRoom(Workspace, w, "sync") \in rooms[c] =>
           /\ \A m \in PushDocUpdateMessages(AnyIds) :
                (m.spaceType = Workspace /\ m.spaceId = w) =>
                  AcceptedUnchecked(c, onReceiveDocUpdate(c, m), "pushDocUpdates")
           /\ \A m \in PushDocUpdatesMessages(AnyIds) :
                (m.spaceType = Workspace /\ m.spaceId = w) =>
                  AcceptedUnchecked(c, onReceiveDocUpdates(c, m), "pushDocUpdates")
           /\ \A m \in DeleteDocMessages(AnyIds) :
                (m.spaceType = Workspace /\ m.spaceId = w) =>
                  AcceptedUnchecked(c, onDeleteSpaceDoc(c, m), "deleteDoc")
           /\ \A m \in LoadDocMessages(AnyIds) :
                (m.spaceType = Workspace /\ m.spaceId = w) =>
                  AcceptedUnchecked(c, onLoadSpaceDoc(c, m), "getDocDiff")
           /\ \A m \in LoadDocTimestampsMessages(AnyIds) :
                (m.spaceType = Workspace /\ m.spaceId = w) =>
                  AcceptedUnchecked(c, onLoadDocTimestamps(c, m),
                                    "getSpaceDocTimestamps")
           /\ \A m \in JoinSpaceMessages(AnyIds) :
                (m.spaceType = Workspace /\ m.spaceId = w
                 /\ Passes(TRUE, m.clientVersion)) =>
                  LET out == JoinSpaceOutcome(c, m, TRUE)
                  IN /\ out.last.done /\ out.last.err = "none"
                     /\ out.last.acc = 0
           /\ \A m \in JoinSpaceAwarenessMessages(AnyIds) :
                (m.spaceType = Workspace /\ m.spaceId = w
                 /\ AwarenessRoomOf(m) \notin rooms[c]
                 /\ Passes(TRUE, m.clientVersion)) =>
                  LET out == JoinAwarenessOutcome(c, m, TRUE)
                  IN /\ ~out.last.done
                     /\ out.task.call.op = "isWorkspaceMember"
                     /\ AfterPermission(out.task, FALSE).last.err
                          = "SpaceAccessDenied"
  /\ \A t \in InFlight :
       (t.call # Nil /\ t.call.op = "isWorkspaceMember") => t.h \in JoinHandlers
  /\ (last.step \in {"push", "delete", "diff", "timestamps"}) => last.acc = 0


\* C29 witness: a push of a member of a workspace sync room was stored, and
\* its handler asked the permission service nothing
C29_Witness ==
  /\ last.h = "space:push-doc-update" /\ last.step = "push"
  /\ last.done /\ last.err = "none" /\ last.acc = 0
  /\ emits[1].data.spaceType = Workspace
  /\ emits[1].room \in rooms[last.c]

\* the awareness rooms of the space of m, for the docs a client may name
AwarenessRoomsOf(m) ==
  {AdapterRoom(m.spaceType, m.spaceId, AwarenessRoomType(d)) : d \in AnyIds.doc}

\* C30: leave-space takes the socket out of the sync room of the space and of
\* no other room: the awareness rooms of the space are kept.  A socket in an
\* awareness room and outside the sync room of the space has its
\* update-awareness and load-awarenesses on that room accepted and broadcast,
\* and receives the awareness updates the other members of the room send.
C30_LeaveKeepsAwareness ==
  \A c \in Conns : CanReceive(c) =>
    /\ \A m \in LeaveSpaceMessages(AnyIds) :
         LET out == onLeaveSpace(c, m)
         IN /\ out.rooms[c] = rooms[c] \ {SyncRoomOf(m)}
            /\ AwarenessRoomsOf(m) \cap rooms[c] \subseteq out.rooms[c]
            /\ \A d \in Conns \ {c} : out.rooms[d] = rooms[d]
    /\ \A m \in UpdateAwarenessMessages(AnyIds) :
         (AwarenessRoomOf(m) \in rooms[c] /\ SyncRoomOf(m) \notin rooms[c]) =>
           /\ LET out == onUpdateAwareness(c, m)
              IN /\ out.last.done /\ out.last.err = "none"
                 /\ out.emits[1].ev = "space:broadcast-awareness-update"
                 /\ out.emits[1].to = Members(AwarenessRoomOf(m)) \ {c}
           /\ LET out == onLoadAwareness(c, [spaceType |-> m.spaceType,
                                             spaceId |-> m.spaceId,
                                             docId |-> m.docId])
              IN /\ out.last.done /\ out.last.err = "none"
                 /\ out.emits[1].ev = "space:collect-awareness"
                 /\ out.emits[1].to = Members(AwarenessRoomOf(m)) \ {c}
           /\ \A d \in Conns \ {c} :
                (CanReceive(d) /\ AwarenessRoomOf(m) \in rooms[d]) =>
                  c \in onUpdateAwareness(d, m).emits[1].to

\* C30 witness: after a leave-space, the connection is in an awareness room
\* and in no sync room
C30_Witness ==
  /\ last.h = "space:leave" /\ last.done /\ last.err = "none"
  /\ status[last.c] = "open"
  /\ rooms[last.c] # {}
  /\ \A t \in SpaceTypes, s \in AnyIds.space :
       AdapterRoom(t, s, "sync") \notin rooms[last.c]


\* C31: when the storage answers the push of c, the broadcasts go to the
\* connected sockets that are in the sync room of the space at that moment,
\* the pusher excepted: a socket that joined the room while the push waited at
\* the storage receives them, a socket that left meanwhile does not; and the
\* push is answered and broadcast whether or not the pusher is still in the
\* room: its membership was asserted before the storage call only.
C31_RecipientsAtEmit ==
  \A t \in Awaiting("push") :
    LET out == AfterPush(t)
        roomName == SyncRoomOf(t.m)
    IN /\ out.last.done /\ out.last.err = "none"
       /\ out.last.reply = [accepted |-> TRUE, timestamp |-> NextTimestamp]
       /\ Len(out.emits) >= 1
       /\ \A i \in DOMAIN out.emits :
            /\ out.emits[i].room = roomName
            /\ out.emits[i].to = Members(roomName) \ {t.c}
            /\ \A d \in Conns \ {t.c} :
                 d \in out.emits[i].to <=>
                   (status[d] = "open" /\ roomName \in rooms[d])

\* C31 witness: while the push of one connection waits at the storage, another
\* connection has just been let into the sync room of the space
C31_Witness ==
  /\ last.h = "space:join" /\ last.step = "permission"
  /\ last.done /\ last.err = "none"
  /\ \E t \in Awaiting("push") :
       /\ t.c # last.c
       /\ SyncRoomOf(t.m) \in rooms[last.c]
       /\ last.c \in AfterPush(t).emits[1].to

====
